---- MODULE Spec2Model ----
(***************************************************************************)
(* Schedule grid compositor: partitioning of timetable records             *)
(* (csv_converter.py), the weekly day x slot grid (csv_converter.py,       *)
(* models.py) and the table layout (word_generator.py).                    *)
(*                                                                         *)
(* Text is modelled as a sequence of Unicode code points, so that Python's *)
(* string comparison (sorting), concatenation (f-strings) and the          *)
(* difference between two spellings of one word are all computed and not   *)
(* assumed.  Dictionary keys that are plain identifiers ("sunday",         *)
(* "first") are TLA+ strings.                                              *)
(***************************************************************************)
EXTENDS Integers, Sequences, FiniteSets, TLC

VARIABLES
    csv_rows,         \* the list of CSVRow objects handed to the converter
    pc,               \* which operation has run / position inside a loop
    grouped_rows,     \* result of group_rows_by_*: insertion-ordered dict
    schedules,        \* result of convert_to_multi_*_schedule (.schedules)
    raised,           \* the exception that escaped the operation, or "none"
    consumed,         \* convert_to_weekly_schedule: records consumed so far
    weekly_schedule,  \* the WeeklySchedule under construction / given
    stdout,           \* number of lines printed by the operation
    table,            \* the docx table built by create_*_table_structure
    view,             \* which generator builds the table: "full" or "staff"
    day_index,        \* _fill_*_content_rows: days filled so far
    category_index,   \* _fill_*_content_rows: rows of the day filled so far
    row_index,        \* _fill_*_content_rows: the next row to fill
    reading,          \* which w:tcBorders of a cell the reader of the saved
                      \* document takes when a cell carries several
    cfg_level,        \* _get_level_config: argument level
    cfg_specialty,    \* _get_level_config: argument specialty (None if omitted)
    config,           \* _get_level_config: the local dict config
    level_overrides,  \* the module's level layers
    specialty_overrides, \* the module's specialty layers
    base_config,      \* the module's dict BASE_LEVEL_CONFIG (an object)
    cfg_shared,       \* sections of config that are the same dict object as
                      \* the section of base_config
    cfg_via,          \* the caller of _get_level_config: "function" (the
                      \* module function called directly) or "method"
                      \* (WordGenerator._fill_header_content)
    cfg_prev,         \* arguments of the previous resolution, or NoCall
    header_text,      \* _fill_header_content: text of the level line
    created_entry,    \* result of create_schedule_entry, or None
    generator,        \* generate_multi_*_word_document: "level", "location",
                      \* "staff"
    doc,              \* the docx Document: body, sections, saved
    part_index,       \* generate_multi_*: schedules handled so far
    tables_on_page    \* generate_multi_staff_word_document: tables_on_page

configVars ==
    <<cfg_level, cfg_specialty, config, level_overrides, specialty_overrides,
      base_config, cfg_shared, cfg_via, cfg_prev, header_text>>

docVars == <<created_entry, generator, doc, part_index, tables_on_page>>

vars == <<csv_rows, pc, grouped_rows, schedules, raised, consumed,
          weekly_schedule, stdout, table, view, day_index, category_index,
          row_index, reading, configVars, docVars>>

-----------------------------------------------------------------------------
(* Bounds of the model.                                                    *)

MaxRows == 3

MaxGridRows == 3

MaxDayRows == 1

MaxEntries == 2

-----------------------------------------------------------------------------
(* Text literals (code points).                                            *)

None == <<-1>>                         \* Python None for an Optional[str]

EmptyStr == <<>>                       \* ""

DEFAULT_LABEL == <<1593, 1575, 1605>>  \* "عام" (csv_converter.py:138, models.py:60)

Txt_comm == <<99, 111, 109, 109>>      \* "comm"

Txt_comp == <<99, 111, 109, 112>>      \* "comp"

Txt_pow == <<112, 111, 119>>           \* "pow"

Txt_100 == <<49, 48, 48>>              \* "100"

Txt_100_0 == <<49, 48, 48, 46, 48>>    \* "100.0" (a float cell read by read_excel)

Txt_250_7 == <<50, 53, 48, 46, 55>>    \* "250.7"

Txt_level_words == <<1575, 1604, 1605, 1587, 1578, 1608, 1609, 32,
                     1575, 1604, 1571, 1608, 1604>>
                                       \* "المستوى الأول" (validate_code.py:97)

Txt_X == <<88>>                        \* "X"

Txt_Y == <<89>>                        \* "Y"

Txt_L1 == <<76, 49>>                   \* "L1"

Txt_L2 == <<76, 50>>                   \* "L2"

Txt_L3 == <<76, 51>>                   \* "L3"

Txt_T == <<84>>                        \* "T"  (a tutor)

Txt_H == <<72>>                        \* "H"  (helping staff)

Txt_code == <<69>>                     \* "E"  (a course code)

Txt_act == <<76>>                      \* "L"  (an activity type)

Txt_None == <<78, 111, 110, 101>>      \* str(None) = "None"

Txt_sep == <<32, 45, 32>>              \* " - "

\* Day names.  Two spellings of Sunday and Wednesday exist in the
\* repository: with a plain alef (1575) and with alef-hamza (1571).
Day_alahad_plain == <<1575, 1604, 1575, 1581, 1583>>

Day_alahad_hamza == <<1575, 1604, 1571, 1581, 1583>>

Day_alithnayn == <<1575, 1604, 1575, 1579, 1606, 1610, 1606>>

Day_althulatha == <<1575, 1604, 1579, 1604, 1575, 1579, 1575, 1569>>

Day_alarbia_plain == <<1575, 1604, 1575, 1585, 1576, 1593, 1575, 1569>>

Day_alarbia_hamza == <<1575, 1604, 1571, 1585, 1576, 1593, 1575, 1569>>

Day_alkhamis == <<1575, 1604, 1582, 1605, 1610, 1587>>

Day_aljumua == <<1575, 1604, 1580, 1605, 1593, 1577>>  \* Friday: in no mapping

-----------------------------------------------------------------------------
(* Python built-ins used by the code.                                      *)

\* bool(s) for an Optional[str]: None and "" are falsy.
Truthy(s) == s # None /\ s # EmptyStr

\* a < b for str: lexicographic by code point, a proper prefix is smaller.
RECURSIVE StrLess(_, _)
StrLess(a, b) ==
    IF b = <<>> THEN FALSE
    ELSE IF a = <<>> THEN TRUE
    ELSE IF Head(a) # Head(b) THEN Head(a) < Head(b)
    ELSE StrLess(Tail(a), Tail(b))

\* (a1, a2) < (b1, b2) for tuples of str.
TupleLess(a, b) ==
    \/ StrLess(a[1], b[1])
    \/ a[1] = b[1] /\ StrLess(a[2], b[2])

IsDigit(c) == c \in 48..57

AllDigits(s) == \A k \in 1..Len(s) : IsDigit(s[k])

RECURSIVE DigitsValue(_)
DigitsValue(s) ==
    IF s = <<>> THEN 0
    ELSE 10 * DigitsValue(SubSeq(s, 1, Len(s) - 1)) + (s[Len(s)] - 48)

\* str(n) for an int n >= 0.
RECURSIVE IntToStr(_)
IntToStr(n) ==
    IF n < 10 THEN <<48 + n>>
    ELSE IntToStr(n \div 10) \o <<48 + (n % 10)>>

\* int(float(s)) for the unsigned decimal forms "ddd", "ddd.", "ddd.ddd" and
\* ".ddd"; every other text of the model's inputs (empty, words) makes float()
\* raise ValueError.  The result is truncated towards zero by int().
PointAt(s) == {k \in 1..Len(s) : s[k] = 46}

IntFloat(s) ==
    LET pts == PointAt(s)
        p == IF pts = {} THEN Len(s) + 1 ELSE CHOOSE k \in pts : TRUE
        whole == SubSeq(s, 1, p - 1)
        frac == SubSeq(s, p + 1, Len(s))
        ok == /\ Cardinality(pts) <= 1
              /\ AllDigits(whole) /\ AllDigits(frac)
              /\ Len(whole) + Len(frac) > 0
    IN  IF ok THEN [ok |-> TRUE, value |-> DigitsValue(whole)]
        ELSE [ok |-> FALSE, value |-> 0]

-----------------------------------------------------------------------------
(* models.py                                                               *)

\* DayOfWeek enum values.
DayOfWeek == [SUNDAY |-> Day_alahad_hamza, MONDAY |-> Day_alithnayn,
              TUESDAY |-> Day_althulatha, WEDNESDAY |-> Day_alarbia_hamza,
              THURSDAY |-> Day_alkhamis]

DayOfWeekValues == {DayOfWeek[k] : k \in DOMAIN DayOfWeek}

\* A CSVRow with the fields the converter reads.
CSVRow(day, slot, half, speciality, specialy_level, level, location, course) ==
    [day |-> day, slot |-> slot, is_half_slot |-> half, code |-> Txt_code,
     speciality |-> speciality, specialy_level |-> specialy_level,
     level |-> level, activity_type |-> Txt_act, location |-> location,
     course_name |-> course, main_tutor |-> Txt_T, helping_stuff |-> Txt_H,
     main_tutor_write |-> Txt_T, helping_stuff_write |-> Txt_H]

\* CSVRow.get_level: [raised, value].
get_level(row) ==
    IF row.level = None THEN [raised |-> "none", value |-> DEFAULT_LABEL]
    ELSE LET f == IntFloat(row.level)
         IN  IF f.ok THEN [raised |-> "none", value |-> IntToStr(f.value)]
             ELSE [raised |-> "ValueError", value |-> None]

\* An empty slot of a DaySchedule (Python None).
NoEntry == [none |-> TRUE]

-----------------------------------------------------------------------------
(* csv_converter.py: CSVConverter                                          *)

\* dict.get(k): the value, or Python None (here the string "None").
NoKey == "None"

DictGet(d, k) == IF k \in DOMAIN d THEN d[k] ELSE NoKey

\* self.day_mapping
day_mapping ==
    (Day_alahad_plain :> "sunday") @@ (Day_alithnayn :> "monday") @@
    (Day_althulatha :> "tuesday") @@ (Day_alarbia_plain :> "wednesday") @@
    (Day_alkhamis :> "thursday")

\* self.slot_mapping
slot_mapping == (1 :> "first") @@ (2 :> "second") @@ (3 :> "third") @@ (4 :> "fourth")

\* Keys of a WeeklySchedule / DaySchedule in insertion order.
WEEK_KEYS_MondayFirst == <<"monday", "sunday", "tuesday", "wednesday", "thursday">>

WEEK_KEYS == <<"sunday", "monday", "tuesday", "wednesday", "thursday">>

SLOT_KEYS == <<"first", "second", "third", "fourth">>

WeekKeySet == {WEEK_KEYS[k] : k \in 1..Len(WEEK_KEYS)}

SlotKeySet == {SLOT_KEYS[k] : k \in 1..Len(SLOT_KEYS)}

\* str(x) inside an f-string.
Str(x) == IF x = None THEN Txt_None ELSE x

\* x or "".
OrEmpty(x) == IF Truthy(x) THEN x ELSE EmptyStr

create_schedule_entry(csv_row) ==
    [course_name |-> OrEmpty(Str(csv_row.code) \o Txt_sep \o Str(csv_row.course_name)
                             \o Txt_sep \o Str(csv_row.activity_type)),
     location |-> csv_row.location,
     instructor |-> OrEmpty(csv_row.main_tutor_write),
     assistant |-> OrEmpty(csv_row.helping_stuff_write),
     is_half_slot |-> csv_row.is_half_slot]

create_empty_day_schedule == [s \in SlotKeySet |-> NoEntry]

\* The WeeklySchedule of csv_converter.py:151-157.
EmptyWeeklySchedule == [d \in WeekKeySet |-> create_empty_day_schedule]

\* Body of the loop of convert_to_weekly_schedule for one record.
PlaceRowSkipsNothing(ws, csv_row) ==
    LET day_key == DictGet(day_mapping, csv_row.day)
        slot_key == DictGet(slot_mapping, csv_row.slot)
        d == IF day_key # NoKey THEN day_key ELSE "sunday"
        s == IF slot_key # NoKey THEN slot_key ELSE "first"
    IN  [ws EXCEPT ![d][s] = create_schedule_entry(csv_row)]

PlaceRowFirstWins(ws, csv_row) ==
    LET day_key == DictGet(day_mapping, csv_row.day)
        slot_key == DictGet(slot_mapping, csv_row.slot)
    IN  IF day_key # NoKey /\ slot_key # NoKey /\ ws[day_key][slot_key] = NoEntry
        THEN [ws EXCEPT ![day_key][slot_key] = create_schedule_entry(csv_row)]
        ELSE ws

PlaceRow(ws, csv_row) ==
    LET day_key == DictGet(day_mapping, csv_row.day)
        slot_key == DictGet(slot_mapping, csv_row.slot)
    IN  IF day_key # NoKey /\ slot_key # NoKey
        THEN [ws EXCEPT ![day_key][slot_key] = create_schedule_entry(csv_row)]
        ELSE ws

\* convert_to_weekly_schedule(rows): the loop run to its end.
RECURSIVE PlaceRows(_, _)
PlaceRows(ws, rows) ==
    IF rows = <<>> THEN ws ELSE PlaceRows(PlaceRow(ws, Head(rows)), Tail(rows))

convert_to_weekly_schedule(rows) == PlaceRows(EmptyWeeklySchedule, rows)

\* grouped_rows[key].append(csv_row), creating the list on the first use of
\* the key.  A group keeps references to the records: positions in csv_rows.
KeyIndex(groups, key) == {g \in 1..Len(groups) : groups[g].key = key}

AppendToGroupReplaces(groups, key, i) ==
    IF KeyIndex(groups, key) = {}
    THEN Append(groups, [key |-> key, rows |-> <<i>>])
    ELSE LET g == CHOOSE g \in KeyIndex(groups, key) : TRUE
         IN  [groups EXCEPT ![g].rows = <<i>>]

AppendToGroupPrepends(groups, key, i) ==
    IF KeyIndex(groups, key) = {}
    THEN Append(groups, [key |-> key, rows |-> <<i>>])
    ELSE LET g == CHOOSE g \in KeyIndex(groups, key) : TRUE
         IN  [groups EXCEPT ![g].rows = <<i>> \o @]

AppendToGroup(groups, key, i) ==
    IF KeyIndex(groups, key) = {}
    THEN Append(groups, [key |-> key, rows |-> <<i>>])
    ELSE LET g == CHOOSE g \in KeyIndex(groups, key) : TRUE
         IN  [groups EXCEPT ![g].rows = Append(@, i)]

\* speciality = csv_row.speciality or csv_row.specialy_level or "عام"
SpecialityOf(csv_row) ==
    IF Truthy(csv_row.speciality) THEN csv_row.speciality
    ELSE IF Truthy(csv_row.specialy_level) THEN csv_row.specialy_level
    ELSE DEFAULT_LABEL

\* group_rows_by_speciality_level: [raised, groups]; an exception of
\* get_level leaves the loop and the method, and no dict is returned.
RECURSIVE GroupLevelFrom(_, _, _)
GroupLevelFrom(rows, k, acc) ==
    IF k > Len(rows) THEN [raised |-> "none", groups |-> acc]
    ELSE LET speciality == SpecialityOf(rows[k])
             level == get_level(rows[k])
         IN  IF level.raised # "none"
             THEN [raised |-> level.raised, groups |-> <<>>]
             ELSE GroupLevelFrom(rows, k + 1,
                                 AppendToGroup(acc, <<speciality, level.value>>, k))

group_rows_by_speciality_level(rows) == GroupLevelFrom(rows, 1, <<>>)

RECURSIVE GroupLocationFrom(_, _, _)
GroupLocationFrom(rows, k, acc) ==
    IF k > Len(rows) THEN acc
    ELSE GroupLocationFrom(rows, k + 1, AppendToGroup(acc, rows[k].location, k))

group_rows_by_location(rows) == GroupLocationFrom(rows, 1, <<>>)

\* The records a group refers to.
RowsOf(rows, group) == [k \in 1..Len(group.rows) |-> rows[group.rows[k]]]

\* list.sort(key=...): ascending and stable.  less[i][j] tells whether the key
\* of s[i] is smaller than the key of s[j].  The element at position i moves
\* behind every element with a smaller key and every earlier element whose
\* key is not larger.
SortByKey(s, less) ==
    LET pos(i) == 1 + Cardinality({j \in 1..Len(s) :
                        \/ less[j][i]
                        \/ j < i /\ ~less[i][j]})
    IN  [k \in 1..Len(s) |-> s[CHOOSE i \in 1..Len(s) : pos(i) = k]]

\* key=lambda x: (x.speciality, x.level)
LevelKeyLess(a, b) == TupleLess(<<a.speciality, a.level>>, <<b.speciality, b.level>>)

\* key=lambda x: x.location
LocationKeyLess(a, b) == StrLess(a.location, b.location)

SortLevelSchedulesUnsorted(s) == s

SortLevelSchedules(s) ==
    SortByKey(s, [i \in 1..Len(s) |-> [j \in 1..Len(s) |-> LevelKeyLess(s[i], s[j])]])

SortLocationSchedulesUnsorted(s) == s

SortLocationSchedules(s) ==
    SortByKey(s, [i \in 1..Len(s) |-> [j \in 1..Len(s) |-> LocationKeyLess(s[i], s[j])]])

\* convert_to_multi_level_schedule: [raised, groups, schedules].
convert_to_multi_level_schedule(rows) ==
    LET g == group_rows_by_speciality_level(rows)
        built == [k \in 1..Len(g.groups) |->
                    [speciality |-> g.groups[k].key[1],
                     level |-> g.groups[k].key[2],
                     weekly_schedule |->
                         convert_to_weekly_schedule(RowsOf(rows, g.groups[k]))]]
    IN  IF g.raised # "none"
        THEN [raised |-> g.raised, groups |-> <<>>, schedules |-> <<>>]
        ELSE [raised |-> "none", groups |-> g.groups,
              schedules |-> SortLevelSchedules(built)]

\* convert_to_multi_location_schedule: [groups, schedules].
convert_to_multi_location_schedule(rows) ==
    LET g == group_rows_by_location(rows)
        built == [k \in 1..Len(g) |->
                    [location |-> g[k].key,
                     weekly_schedule |-> convert_to_weekly_schedule(RowsOf(rows, g[k]))]]
    IN  [groups |-> g, schedules |-> SortLocationSchedules(built)]

-----------------------------------------------------------------------------
(* word_generator.py: constants                                            *)

\* ColumnType values.
ColumnType == [DAYS |-> 0, CATEGORIES |-> 1,
               TIME_SLOT_1 |-> 2, TIME_SLOT_1_HALF |-> 3, SEPARATOR_1 |-> 4,
               TIME_SLOT_2 |-> 5, TIME_SLOT_2_HALF |-> 6, SEPARATOR_2 |-> 7,
               TIME_SLOT_3 |-> 8, TIME_SLOT_3_HALF |-> 9, SEPARATOR_3 |-> 10,
               TIME_SLOT_4 |-> 11, TIME_SLOT_4_HALF |-> 12]

\* TableDimensions
TOTAL_ROWS == 21

TOTAL_COLUMNS == 13

HEADER_ROW_INDEX == 0

CONTENT_START_ROW_INDEX == 1

ROWS_PER_DAY == 4

\* WordGenerator.__init__ (sequences are 1-based here, Python's are 0-based)
generator_day_mapping ==
    (Day_alahad_hamza :> "sunday") @@ (Day_alithnayn :> "monday") @@
    (Day_althulatha :> "tuesday") @@ (Day_alarbia_hamza :> "wednesday") @@
    (Day_alkhamis :> "thursday")

days_arabic == <<Day_alahad_hamza, Day_alithnayn, Day_althulatha,
                 Day_alarbia_hamza, Day_alkhamis>>

detail_categories ==
    << <<1575, 1587, 1605, 32, 1575, 1604, 1605, 1575, 1583, 1577>>,
       <<1575, 1604, 1605, 1603, 1575, 1606>>,
       <<1575, 1587, 1578, 1575, 1584, 32, 1575, 1604, 1605, 1575, 1583, 1577>>,
       <<1575, 1604, 1607, 1610, 1574, 1577, 32, 1575, 1604, 1605, 1593, 1575,
         1608, 1606, 1577>> >>

time_slots ==
    << <<1575, 1604, 1605, 1581, 1575, 1590, 1585, 1577, 32, 1575, 1604, 1571,
         1608, 1604, 1609, 32, 56, 46, 53, 48, 45, 49, 48, 46, 51, 48>>,
       <<1575, 1604, 1605, 1581, 1575, 1590, 1585, 1577, 32, 1575, 1604, 1579,
         1575, 1606, 1610, 1577, 32, 49, 48, 46, 52, 48, 32, 45, 32, 49, 50, 46,
         49, 48>>,
       <<1575, 1604, 1605, 1581, 1575, 1590, 1585, 1577, 32, 1575, 1604, 1579,
         1575, 1604, 1579, 1577, 32, 49, 50, 46, 50, 48, 32, 45, 32, 49, 46, 53,
         48>>,
       <<1575, 1604, 1605, 1581, 1575, 1590, 1585, 1577, 32, 1575, 1604, 1585,
         1575, 1576, 1593, 1577, 32, 50, 46, 48, 48, 32, 45, 32, 51, 46, 51,
         48>> >>

time_slot_positions ==
    <<ColumnType.TIME_SLOT_1, ColumnType.TIME_SLOT_2,
      ColumnType.TIME_SLOT_3, ColumnType.TIME_SLOT_4>>

time_slot_half_positions ==
    <<ColumnType.TIME_SLOT_1_HALF, ColumnType.TIME_SLOT_2_HALF,
      ColumnType.TIME_SLOT_3_HALF, ColumnType.TIME_SLOT_4_HALF>>

separator_positions ==
    <<ColumnType.SEPARATOR_1, ColumnType.SEPARATOR_2, ColumnType.SEPARATOR_3>>

slot_keys == <<"first", "second", "third", "fourth">>

-----------------------------------------------------------------------------
(* The docx table as python-docx presents it.                              *)
(*   anchor[r][c]  the cell object row.cells[c] of table.rows[r] returns:  *)
(*                 the cell itself, or the top-left cell of the merge      *)
(*                 region that absorbed it;                                *)
(*   paras[r][c]   the paragraphs of the cell, each a sequence of runs;    *)
(*                 <<>> once the cell element was removed by a merge;      *)
(*   regions       the merge regions made so far;                          *)
(*   span[r][c]    <<rows, columns>> the cell covers (w:vMerge, w:gridSpan);*)
(*                 <<0, 0>> for a cell that a merge absorbed;              *)
(*   borders[r][c] the w:tcBorders children of the cell's w:tcPr, in       *)
(*                 document order;                                         *)
(*   shd[r][c]     the fill of the cell's w:shd child, or NoShd;           *)
(*   tblBorders    the table's w:tblBorders set by the generator, or       *)
(*                 NoTblBorders (the borders of the table style apply).    *)

Cols == 0..(TOTAL_COLUMNS - 1)

FreshParas == << <<>> >>          \* one paragraph without runs

NoShd == "none"

NoTblBorders == [set |-> FALSE]

NoTable ==
    [nrows |-> 0, anchor |-> <<>>, paras |-> <<>>, regions |-> {}, span |-> <<>>,
     borders |-> <<>>, shd |-> <<>>, tblBorders |-> NoTblBorders]

\* doc.add_table(rows, cols)
add_table(rows, cols) ==
    [nrows |-> rows,
     anchor |-> [r \in 0..(rows - 1) |-> [c \in 0..(cols - 1) |-> <<r, c>>]],
     paras |-> [r \in 0..(rows - 1) |-> [c \in 0..(cols - 1) |-> FreshParas]],
     regions |-> {},
     span |-> [r \in 0..(rows - 1) |-> [c \in 0..(cols - 1) |-> <<1, 1>>]],
     borders |-> [r \in 0..(rows - 1) |-> [c \in 0..(cols - 1) |-> <<>>]],
     shd |-> [r \in 0..(rows - 1) |-> [c \in 0..(cols - 1) |-> NoShd]],
     tblBorders |-> NoTblBorders]

\* table.rows[r].cells[c]
CellAt(t, r, c) == t.anchor[r][c]

\* cell.text = txt : the content becomes one paragraph with one run.
SetText(t, cell, txt) == [t EXCEPT !.paras[cell[1]][cell[2]] = << <<txt>> >>]

RECURSIVE Concat(_)
Concat(ss) == IF ss = <<>> THEN <<>> ELSE Head(ss) \o Concat(Tail(ss))

\* cell.text : the paragraphs' texts joined by "\n" (code point 10).
RECURSIVE JoinParas(_)
JoinParas(ps) ==
    IF ps = <<>> THEN <<>>
    ELSE IF Len(ps) = 1 THEN Concat(ps[1])
    ELSE Concat(ps[1]) \o <<10>> \o JoinParas(Tail(ps))

CellText(t, cell) == JoinParas(t.paras[cell[1]][cell[2]])

\* python-docx CT_Tc._is_empty / _remove_trailing_empty_p / _move_content_to
IsEmptyCell(ps) == ps = FreshParas

RemoveTrailingEmptyP(ps) ==
    IF ps # <<>> /\ ps[Len(ps)] = <<>> THEN SubSeq(ps, 1, Len(ps) - 1) ELSE ps

MoveContentTo(src, dst) ==
    IF IsEmptyCell(src) \/ src = <<>> THEN dst ELSE RemoveTrailingEmptyP(dst) \o src

Min2(a, b) == IF a < b THEN a ELSE b

Max2(a, b) == IF a < b THEN b ELSE a

\* a.merge(b): the rectangle spanned by cells a and b becomes one cell, the
\* top-left one; the content of the others moves into it row by row; cells to
\* its right are removed, cells below it stay as empty continuation cells.
RECURSIVE MoveAll(_, _, _)
MoveAll(t, cells, dst) ==
    IF cells = <<>> THEN dst
    ELSE MoveAll(t, Tail(cells), MoveContentTo(t.paras[Head(cells)[1]][Head(cells)[2]], dst))

RowMajor(top, left, bottom, right) ==
    [k \in 1..((bottom - top + 1) * (right - left + 1)) |->
        <<top + ((k - 1) \div (right - left + 1)), left + ((k - 1) % (right - left + 1))>>]

\* The absorbed cells now answer as the top-left cell.
RECURSIVE Absorb(_, _, _, _)
Absorb(t, cells, top, left) ==
    IF cells = <<>> THEN t
    ELSE LET r == Head(cells)[1]
             c == Head(cells)[2]
         IN  Absorb([t EXCEPT !.anchor[r][c] = <<top, left>>,
                              !.span[r][c] = <<0, 0>>,
                              !.paras[r][c] = IF c = left THEN FreshParas ELSE <<>>],
                    Tail(cells), top, left)

MergeKeepsCellsApart(t, a, b) == t

Merge(t, a, b) ==
    LET top == Min2(a[1], b[1])
        bottom == Max2(a[1], b[1])
        left == Min2(a[2], b[2])
        right == Max2(a[2], b[2])
        others == Tail(RowMajor(top, left, bottom, right))
        merged == MoveAll(t, others, t.paras[top][left])
        t1 == [t EXCEPT !.paras[top][left] = merged,
                        !.span[top][left] = <<bottom - top + 1, right - left + 1>>,
                        !.regions = @ \cup {[top |-> top, left |-> left,
                                             bottom |-> bottom, right |-> right]}]
    IN  Absorb(t1, others, top, left)

\* "Keep only the first paragraph" (after each horizontal merge).
KeepFirstParagraph(t, cell) ==
    IF Len(t.paras[cell[1]][cell[2]]) > 1
    THEN [t EXCEPT !.paras[cell[1]][cell[2]] = <<@[1]>>]
    ELSE t

-----------------------------------------------------------------------------
(* word_generator.py: borders and background                               *)

RowType == [HEADER |-> 0, DAY_START |-> 1, DAY_MIDDLE |-> 2, DAY_END |-> 3]

ColorScheme ==
    [DAYS_COLUMN |-> "8DB3E2", CATEGORIES_COLUMN |-> "B7DDE8",
     HEADER_BACKGROUND |-> "8DB3E2", SEPARATOR_BACKGROUND |-> "B7DDE8"]

BorderWidth == [THIN |-> 4, THICK |-> 18]

\* One w:tcBorders element: the w:sz of its four edges; inside is "none"
\* when the element also carries w:insideH / w:insideV with val "none".
TcBorders(top, left, bottom, right, inside) ==
    [top |-> top, left |-> left, bottom |-> bottom, right |-> right,
     inside |-> inside]

\* _apply_formatting: "Determine row type".
RowTypeOf(row) ==
    IF row = HEADER_ROW_INDEX THEN RowType.HEADER
    ELSE LET day_row_index == (row - CONTENT_START_ROW_INDEX) % ROWS_PER_DAY
         IN  IF day_row_index = 0 THEN RowType.DAY_START
             ELSE IF day_row_index = ROWS_PER_DAY - 1 THEN RowType.DAY_END
             ELSE RowType.DAY_MIDDLE

\* _apply_formatting: the w:tcBorders built for the visit of (row, col).
CellBordersThinHeaderTop(row, col) ==
    LET row_type == RowTypeOf(row)
        top_border_width ==
            IF row_type = RowType.DAY_START THEN BorderWidth.THICK
            ELSE BorderWidth.THIN
        bottom_border_width ==
            IF row_type = RowType.DAY_START /\ col = ColumnType.DAYS
            THEN BorderWidth.THICK
            ELSE IF row_type = RowType.DAY_END THEN BorderWidth.THICK
            ELSE BorderWidth.THIN
    IN  TcBorders(top_border_width, BorderWidth.THICK, bottom_border_width,
                  BorderWidth.THICK, "unset")

CellBordersAllRowsAlike(row, col) ==
    TcBorders(BorderWidth.THICK, BorderWidth.THICK, BorderWidth.THIN,
              BorderWidth.THICK, "unset")

CellBorders(row, col) ==
    LET row_type == RowTypeOf(row)
        vertical_border_width == BorderWidth.THICK
        top_border_width ==
            IF row_type = RowType.HEADER THEN BorderWidth.THICK
            ELSE IF row_type = RowType.DAY_START THEN BorderWidth.THICK
            ELSE BorderWidth.THIN
        bottom_border_width ==
            IF row_type = RowType.HEADER THEN BorderWidth.THIN
            ELSE IF row_type = RowType.DAY_START
            THEN (IF col = ColumnType.DAYS THEN BorderWidth.THICK
                  ELSE BorderWidth.THIN)
            ELSE IF row_type = RowType.DAY_END THEN BorderWidth.THICK
            ELSE BorderWidth.THIN
    IN  TcBorders(top_border_width, vertical_border_width, bottom_border_width,
                  vertical_border_width, "unset")

InSeq(x, seq) == \E k \in 1..Len(seq) : seq[k] = x

\* _apply_cell_background_color: the fill chosen for the visit of
\* (row, col), NoShd when no branch applies and the shading is left alone.
BackgroundForOneTint(col, row) ==
    IF row > HEADER_ROW_INDEX
    THEN (IF col = ColumnType.DAYS \/ col = ColumnType.CATEGORIES
             \/ InSeq(col, separator_positions)
          THEN ColorScheme.DAYS_COLUMN ELSE NoShd)
    ELSE (IF col = ColumnType.DAYS \/ col = ColumnType.CATEGORIES
          THEN NoShd ELSE ColorScheme.DAYS_COLUMN)

BackgroundFor(col, row) ==
    IF col = ColumnType.DAYS /\ row > HEADER_ROW_INDEX
    THEN ColorScheme.DAYS_COLUMN
    ELSE IF col = ColumnType.CATEGORIES /\ row > HEADER_ROW_INDEX
    THEN ColorScheme.CATEGORIES_COLUMN
    ELSE IF row = HEADER_ROW_INDEX
            /\ (InSeq(col, time_slot_positions) \/ InSeq(col, time_slot_half_positions))
    THEN ColorScheme.HEADER_BACKGROUND
    ELSE IF row = HEADER_ROW_INDEX /\ InSeq(col, separator_positions)
    THEN ColorScheme.HEADER_BACKGROUND
    ELSE IF row > HEADER_ROW_INDEX /\ InSeq(col, separator_positions)
    THEN ColorScheme.SEPARATOR_BACKGROUND
    ELSE NoShd

\* The grid positions at which "for row in table.rows: for cell in
\* row.cells" meets the cell object `cell`, in the order of the loops.
Visits(t, cell) ==
    LET sp == t.span[cell[1]][cell[2]]
    IN  SelectSeq(RowMajor(cell[1], cell[2], cell[1] + sp[1] - 1, cell[2] + sp[2] - 1),
                  LAMBDA p : t.anchor[p[1]][p[2]] = cell)

\* The shading after the visits vs of _apply_cell_background_color: each
\* visit with a fill replaces the w:shd.
ShadeAfter(old, vs) ==
    LET hits == {k \in 1..Len(vs) : BackgroundFor(vs[k][2], vs[k][1]) # NoShd}
        last == CHOOSE k \in hits : \A j \in hits : j <= k
    IN  IF hits = {} THEN old ELSE BackgroundFor(vs[last][2], vs[last][1])

\* _apply_formatting: every visit appends one w:tcBorders to the w:tcPr of
\* the cell object it meets and applies the background of its position.
_apply_formatting(t) ==
    [t EXCEPT
        !.borders = [r \in 0..(t.nrows - 1) |-> [c \in Cols |->
            IF t.anchor[r][c] = <<r, c>>
            THEN LET vs == Visits(t, <<r, c>>)
                 IN  t.borders[r][c]
                        \o [k \in 1..Len(vs) |-> CellBorders(vs[k][1], vs[k][2])]
            ELSE t.borders[r][c]]],
        !.shd = [r \in 0..(t.nrows - 1) |-> [c \in Cols |->
            IF t.anchor[r][c] = <<r, c>>
            THEN ShadeAfter(t.shd[r][c], Visits(t, <<r, c>>))
            ELSE t.shd[r][c]]]]

\* _apply_day_cell_borders: the w:tcBorders of the cell are replaced by one
\* that is thick all around, the day-column fill is set, and for a cell that
\* carries w:vMerge the table's w:tblBorders are rewritten.  (No w:tcBorders
\* exists on the cell when the fill calls this, so the removal loop has
\* nothing to skip.)
_apply_day_cell_borders(t, day_cell) ==
    LET is_merged == t.span[day_cell[1]][day_cell[2]][1] > 1
        thick == TcBorders(BorderWidth.THICK, BorderWidth.THICK, BorderWidth.THICK,
                           BorderWidth.THICK,
                           IF is_merged THEN "none" ELSE "unset")
    IN  [t EXCEPT !.borders[day_cell[1]][day_cell[2]] = <<thick>>,
                  !.shd[day_cell[1]][day_cell[2]] = ColorScheme.DAYS_COLUMN,
                  !.tblBorders = IF is_merged
                                 THEN [set |-> TRUE, outer |-> BorderWidth.THICK,
                                       inside |-> BorderWidth.THIN]
                                 ELSE @]

\* _apply_table_outline_borders: for a cell met on an edge of the table, the
\* first w:tcBorders of its w:tcPr gets the thick width on that edge.
_apply_table_outline_borders(t) ==
    LET total_rows == t.nrows
        total_cols == TOTAL_COLUMNS
        Outlined(r, c) ==
            LET vs == Visits(t, <<r, c>>)
                existing_borders == t.borders[r][c][1]
                on(P(_)) == \E k \in 1..Len(vs) : P(vs[k])
                is_top(p) == p[1] = 0
                is_bottom(p) == p[1] = total_rows - 1
                is_left(p) == p[2] = 0
                is_right(p) == p[2] = total_cols - 1
            IN  [t.borders[r][c] EXCEPT ![1] =
                    [top |-> IF on(is_top) THEN BorderWidth.THICK
                             ELSE existing_borders.top,
                     left |-> IF on(is_left) THEN BorderWidth.THICK
                              ELSE existing_borders.left,
                     bottom |-> IF on(is_bottom) THEN BorderWidth.THICK
                                ELSE existing_borders.bottom,
                     right |-> IF on(is_right) THEN BorderWidth.THICK
                               ELSE existing_borders.right,
                     inside |-> existing_borders.inside]]
    IN  [t EXCEPT !.borders = [r \in 0..(t.nrows - 1) |-> [c \in Cols |->
            IF t.anchor[r][c] = <<r, c>> /\ t.borders[r][c] # <<>>
            THEN Outlined(r, c)
            ELSE t.borders[r][c]]]]

-----------------------------------------------------------------------------
(* word_generator.py: WordGenerator / StaffWordGenerator table content     *)

\* _fill_header_row: one time slot (i is 1-based here).
FillHeaderSlotUnmerged(t, i) ==
    SetText(t, CellAt(t, HEADER_ROW_INDEX, time_slot_positions[i]), time_slots[i])

FillHeaderSlot(t, i) ==
    LET main_cell == CellAt(t, HEADER_ROW_INDEX, time_slot_positions[i])
        half_cell == CellAt(t, HEADER_ROW_INDEX, time_slot_half_positions[i])
        t1 == SetText(t, main_cell, time_slots[i])
        t2 == Merge(t1, main_cell, half_cell)
    IN  KeepFirstParagraph(t2, main_cell)

RECURSIVE FillHeaderSlots(_, _)
FillHeaderSlots(t, i) ==
    IF i > Len(time_slots) THEN t ELSE FillHeaderSlots(FillHeaderSlot(t, i), i + 1)

\* for pos in self.separator_positions: row.cells[pos].text = ""
RECURSIVE ClearSeparators(_, _, _)
ClearSeparators(t, r, k) ==
    IF k > Len(separator_positions) THEN t
    ELSE ClearSeparators(SetText(t, CellAt(t, r, separator_positions[k]), EmptyStr),
                         r, k + 1)

_fill_header_row(t) ==
    LET t1 == SetText(t, CellAt(t, HEADER_ROW_INDEX, ColumnType.DAYS), EmptyStr)
        t2 == SetText(t1, CellAt(t1, HEADER_ROW_INDEX, ColumnType.CATEGORIES), EmptyStr)
        t3 == FillHeaderSlots(t2, 1)
    IN  ClearSeparators(t3, HEADER_ROW_INDEX, 1)

\* "Determine content based on category" (category_idx is 0-based).
ContentSwapped(schedule_entry, category_idx) ==
    IF category_idx = 0 THEN schedule_entry.course_name
    ELSE IF category_idx = 1 THEN schedule_entry.location
    ELSE IF category_idx = 2 THEN schedule_entry.assistant
    ELSE IF category_idx = 3 THEN schedule_entry.instructor
    ELSE EmptyStr

Content(schedule_entry, category_idx) ==
    IF category_idx = 0 THEN schedule_entry.course_name
    ELSE IF category_idx = 1 THEN schedule_entry.location
    ELSE IF category_idx = 2 THEN schedule_entry.instructor
    ELSE IF category_idx = 3 THEN schedule_entry.assistant
    ELSE EmptyStr

\* One time slot of one content row (slot_index is 1-based here).
FillSlotAlwaysMerges(t, r, day_schedule, category_idx, slot_index) ==
    LET main_cell == CellAt(t, r, time_slot_positions[slot_index])
        half_cell == CellAt(t, r, time_slot_half_positions[slot_index])
        schedule_entry == day_schedule[slot_keys[slot_index]]
        txt == IF schedule_entry # NoEntry THEN Content(schedule_entry, category_idx)
               ELSE EmptyStr
        t1 == SetText(SetText(t, main_cell, txt), half_cell, EmptyStr)
    IN  KeepFirstParagraph(Merge(t1, main_cell, half_cell), main_cell)

FillSlotLeavesEmptyApart(t, r, day_schedule, category_idx, slot_index) ==
    LET main_cell == CellAt(t, r, time_slot_positions[slot_index])
        half_cell == CellAt(t, r, time_slot_half_positions[slot_index])
        schedule_entry == day_schedule[slot_keys[slot_index]]
    IN  IF schedule_entry # NoEntry
        THEN LET content == Content(schedule_entry, category_idx)
                 t1 == SetText(SetText(t, main_cell, content), half_cell, EmptyStr)
             IN  IF schedule_entry.is_half_slot
                 THEN t1
                 ELSE KeepFirstParagraph(Merge(t1, main_cell, half_cell), main_cell)
        ELSE SetText(SetText(t, main_cell, EmptyStr), half_cell, EmptyStr)

FillSlot(t, r, day_schedule, category_idx, slot_index) ==
    LET main_cell == CellAt(t, r, time_slot_positions[slot_index])
        half_cell == CellAt(t, r, time_slot_half_positions[slot_index])
        schedule_entry == day_schedule[slot_keys[slot_index]]
    IN  IF schedule_entry # NoEntry
        THEN LET content == Content(schedule_entry, category_idx)
                 t1 == SetText(SetText(t, main_cell, content), half_cell, EmptyStr)
             IN  IF schedule_entry.is_half_slot
                 THEN t1
                 ELSE KeepFirstParagraph(Merge(t1, main_cell, half_cell), main_cell)
        ELSE LET t1 == SetText(SetText(t, main_cell, EmptyStr), half_cell, EmptyStr)
             IN  KeepFirstParagraph(Merge(t1, main_cell, half_cell), main_cell)

RECURSIVE FillSlots(_, _, _, _, _)
FillSlots(t, r, day_schedule, category_idx, slot_index) ==
    IF slot_index > Len(slot_keys) THEN t
    ELSE FillSlots(FillSlot(t, r, day_schedule, category_idx, slot_index),
                   r, day_schedule, category_idx, slot_index + 1)

\* One content row (one iteration of "for category_index, category in
\* enumerate(self.detail_categories)"): day cell (first row of the day only),
\* category cell, the four time slots, the separators.
FillCategoryRowSkipsLastDay(t, row, day_arabic, day_schedule, category_idx) ==
    LET day_cell == CellAt(t, row, ColumnType.DAYS)
        t1 == IF category_idx = 0
              THEN LET td == SetText(t, day_cell, day_arabic)
                   IN  IF row + 4 < td.nrows
                       THEN _apply_day_cell_borders(
                                Merge(td, day_cell, CellAt(td, row + 3, ColumnType.DAYS)),
                                day_cell)
                       ELSE td
              ELSE t
        t2 == SetText(t1, CellAt(t1, row, ColumnType.CATEGORIES),
                      detail_categories[category_idx + 1])
        t3 == FillSlots(t2, row, day_schedule, category_idx, 1)
    IN  ClearSeparators(t3, row, 1)

FillCategoryRowMergesFive(t, row, day_arabic, day_schedule, category_idx) ==
    LET day_cell == CellAt(t, row, ColumnType.DAYS)
        t1 == IF category_idx = 0
              THEN LET td == SetText(t, day_cell, day_arabic)
                   IN  IF row + 4 < td.nrows
                       THEN _apply_day_cell_borders(
                                Merge(td, day_cell, CellAt(td, row + 4, ColumnType.DAYS)),
                                day_cell)
                       ELSE td
              ELSE t
        t2 == SetText(t1, CellAt(t1, row, ColumnType.CATEGORIES),
                      detail_categories[category_idx + 1])
        t3 == FillSlots(t2, row, day_schedule, category_idx, 1)
    IN  ClearSeparators(t3, row, 1)

FillCategoryRow(t, row, day_arabic, day_schedule, category_idx) ==
    LET day_cell == CellAt(t, row, ColumnType.DAYS)
        t1 == IF category_idx = 0
              THEN LET td == SetText(t, day_cell, day_arabic)
                   IN  IF row + 3 < td.nrows
                       THEN _apply_day_cell_borders(
                                Merge(td, day_cell, CellAt(td, row + 3, ColumnType.DAYS)),
                                day_cell)
                       ELSE td
              ELSE t
        t2 == SetText(t1, CellAt(t1, row, ColumnType.CATEGORIES),
                      detail_categories[category_idx + 1])
        t3 == FillSlots(t2, row, day_schedule, category_idx, 1)
    IN  ClearSeparators(t3, row, 1)

\* _fill_content_rows, one row: the label comes from days_arabic by position,
\* the day's schedule from the day_index-th key of the schedule (0-based).
FillContentRow(t, ws, row, day_idx, category_idx) ==
    LET day_key == WEEK_KEYS[day_idx + 1]
    IN  FillCategoryRow(t, row, days_arabic[day_idx + 1], ws[day_key], category_idx)

\* any(day_schedule.values())
AnyEntry(day_schedule) == \E s \in DOMAIN day_schedule : day_schedule[s] # NoEntry

\* active_days = [day for day, day_schedule in weekly_schedule.items() if any(...)]
ActiveDaysAll(ws) == WEEK_KEYS

ActiveDays(ws) == SelectSeq(WEEK_KEYS, LAMBDA d : AnyEntry(ws[d]))

\* day_map = {v: k for k, v in self.day_mapping.items()}; day_map.get(day_key, "")
DayMapGet(day_key) ==
    LET ks == {k \in DOMAIN generator_day_mapping : generator_day_mapping[k] = day_key}
    IN  IF ks = {} THEN EmptyStr ELSE CHOOSE k \in ks : TRUE

\* _fill_staff_content_rows, one row (day_idx is 0-based).
FillStaffContentRow(t, ws, active_days, row, day_idx, category_idx) ==
    LET day_key == active_days[day_idx + 1]
    IN  FillCategoryRow(t, row, DayMapGet(day_key), ws[day_key], category_idx)

-----------------------------------------------------------------------------
(* word_generator.py: the layered header/footer configuration.  A dict is  *)
(* a function from its keys to its values; a section that an override      *)
(* does not have is a key that is not in its domain.                       *)

Txt_200 == <<50, 48, 48>>              \* "200"

Txt_300 == <<51, 48, 48>>              \* "300"

Txt_400 == <<52, 48, 48>>              \* "400"

BASE_LEVEL_CONFIG ==
    [header |-> [
        university_name |-> <<1580, 1575, 1605, 1593, 1577, 32, 1575, 1604,
            1601, 1610, 1608, 1605>>,
        faculty_name |-> <<1603, 1604, 1610, 1577, 32, 1575, 1604, 1607,
            1606, 1583, 1587, 1577>>,
        department_prefix |-> <<1602, 1587, 1605, 32, 1575, 1604, 1607, 1606,
            1583, 1587, 1577, 32, 1575, 1604, 1603, 1607, 1585, 1576, 1610,
            1577>>,
        academic_year |-> <<1575, 1604, 1593, 1575, 1605, 32, 1575, 1604,
            1580, 1575, 1605, 1593, 1610, 32, 50, 48, 50, 53, 32, 45, 32, 50,
            48, 50, 54>>,
        semester |-> <<1575, 1604, 1601, 1589, 1604, 32, 1575, 1604, 1583,
            1585, 1575, 1587, 1610, 32, 1575, 1604, 1571, 1608, 1604>>,
        division_prefix |-> <<1588, 1593, 1576, 1577>>,
        level_prefix |-> <<1575, 1604, 1601, 1585, 1602, 1577>>,
        schedule_template |-> <<1588, 1574, 1608, 1606, 32, 1575, 1604, 1578,
            1593, 1604, 1610, 1605, 32, 1608, 1575, 1604, 1591, 1604, 1575,
            1576, 32, 1575, 1604, 1580, 1583, 1575, 1608, 1604, 32, 1575,
            1604, 1583, 1585, 1575, 1587, 1610, 1577>>],
     footer |-> [
        dean_title |-> <<1593, 1605, 1610, 1583, 32, 1575, 1604, 1603, 1604,
            1610, 1577>>,
        dean_name |-> <<1575, 46, 1583, 46, 32, 1585, 1575, 1606, 1610, 1575,
            32, 1575, 1581, 1605, 1583, 32, 1593, 1576, 1583, 1575, 1604,
            1593, 1592, 1610, 1605>>,
        vice_dean_title |-> <<1608, 1603, 1610, 1604, 32, 1575, 1604, 1603,
            1604, 1610, 1577, 32, 1604, 1588, 1574, 1608, 1606, 32, 1575,
            1604, 1578, 1593, 1604, 1610, 1605, 32, 1608, 1575, 1604, 1591,
            1604, 1575, 1576>>,
        vice_dean_name |-> <<1575, 46, 1583, 46, 32, 1575, 1581, 1605, 1583,
            32, 1587, 1585, 1580, 32, 1601, 1585, 1610, 1583>>,
        head_department_title |-> <<1585, 1574, 1610, 1587, 32, 1602, 1587,
            1605, 32, 1575, 1604, 1607, 1606, 1583, 1587, 1577, 32, 1575,
            1604, 1603, 1607, 1585, 1576, 1610, 1577>>,
        head_department_name |-> <<1575, 46, 1583, 46, 32, 1593, 1605, 1585,
            1608, 32, 1585, 1601, 1593, 1578>>]]

LEVEL_OVERRIDES ==
    (Txt_100 :> [header |-> [
         level_prefix |-> <<1575, 1604, 1605, 1587, 1578, 1608, 1610>>],
      footer |-> [
         program_manager_title |-> <<1605, 1606, 1587, 1602, 32, 1575, 1604,
            1576, 1585, 1606, 1575, 1605, 1580>>]])
    @@ (Txt_200 :> [header |-> [
         level_prefix |-> <<1575, 1604, 1605, 1587, 1578, 1608, 1610>>],
      footer |-> [
         program_manager_title |-> <<1605, 1606, 1587, 1602, 32, 1575, 1604,
            1576, 1585, 1606, 1575, 1605, 1580>>]])

SPECIALTY_OVERRIDES ==
    (Txt_comm :> [footer |-> [
         program_manager_name |-> <<1571, 46, 1583, 32, 1605, 1581, 1605,
            1583, 32, 1581, 1605, 1583, 1610>>]])
    @@ (Txt_pow :> [footer |-> [
         program_manager_name |-> <<1571, 46, 1583, 32, 1582, 1575, 1604,
            1583, 32, 1581, 1587, 1606, 1610>>]])

\* The display names of levels and specialities (dicts of text).
LEVEL_MAPPING ==
       (Txt_100 :> <<1575, 1604, 1571, 1608, 1604>>)
    @@ (Txt_200 :> <<1575, 1604, 1579, 1575, 1606, 1610>>)
    @@ (Txt_300 :> <<1575, 1604, 1579, 1575, 1604, 1579>>)
    @@ (Txt_400 :> <<1575, 1604, 1585, 1575, 1576, 1593>>)

SPECIALITY_MAPPING ==
       (Txt_pow :> <<1575, 1604, 1602, 1608, 1610, 32, 1608, 1575, 1604,
            1570, 1604, 1575, 1578, 32, 1575, 1604, 1603, 1607, 1585, 1576,
            1610, 1577>>)
    @@ (Txt_comm :> <<1575, 1604, 1575, 1578, 1589, 1575, 1604, 1575, 1578>>)
    @@ (Txt_comp :> <<1575, 1604, 1581, 1575, 1587, 1576, 1575, 1578>>)

LEVEL_SPECIALITY_MAPPING ==
    Txt_comm :> (
           (Txt_100 :> <<1575, 1604, 1575, 1578, 1589, 1575, 1604, 1575,
            1578, 32, 1608, 1575, 1604, 1581, 1575, 1587, 1576, 1575, 1578>>)
        @@ (Txt_200 :> <<1575, 1604, 1575, 1578, 1589, 1575, 1604, 1575,
            1578, 32, 1608, 1575, 1604, 1581, 1575, 1587, 1576, 1575, 1578>>))

\* LEVEL_MAPPING.get(level, level)
_get_mapped_level(level) ==
    IF level \in DOMAIN LEVEL_MAPPING THEN LEVEL_MAPPING[level] ELSE level

_get_mapped_speciality_MapsUnknownToEmpty(speciality, level) ==
    IF /\ speciality \in DOMAIN LEVEL_SPECIALITY_MAPPING
       /\ Truthy(level)
       /\ level \in DOMAIN LEVEL_SPECIALITY_MAPPING[speciality]
    THEN LEVEL_SPECIALITY_MAPPING[speciality][level]
    ELSE IF speciality \in DOMAIN SPECIALITY_MAPPING
         THEN SPECIALITY_MAPPING[speciality]
         ELSE EmptyStr

\* The level-dependent name if there is one, else
\* SPECIALITY_MAPPING.get(speciality, speciality).
_get_mapped_speciality(speciality, level) ==
    IF /\ speciality \in DOMAIN LEVEL_SPECIALITY_MAPPING
       /\ Truthy(level)
       /\ level \in DOMAIN LEVEL_SPECIALITY_MAPPING[speciality]
    THEN LEVEL_SPECIALITY_MAPPING[speciality][level]
    ELSE IF speciality \in DOMAIN SPECIALITY_MAPPING
         THEN SPECIALITY_MAPPING[speciality]
         ELSE speciality

\* d.update(o)
DictUpdateReplaces(d, o) == o

DictUpdate(d, o) ==
    [k \in (DOMAIN d) \cup (DOMAIN o) |-> IF k \in DOMAIN o THEN o[k] ELSE d[k]]

\* "Merge header overrides" / "Merge footer overrides" of one layer.
ApplyOverride(cfg, override) ==
    LET c1 == IF "header" \in DOMAIN override
              THEN [cfg EXCEPT !.header = DictUpdate(@, override.header)]
              ELSE cfg
    IN  IF "footer" \in DOMAIN override
        THEN [c1 EXCEPT !.footer = DictUpdate(@, override.footer)]
        ELSE c1

\* if level in LEVEL_OVERRIDES: ...
ApplyLevelLayer(cfg, lv, lo) ==
    IF lv \in DOMAIN lo THEN ApplyOverride(cfg, lo[lv]) ELSE cfg

\* if specialty and specialty in SPECIALTY_OVERRIDES: ...
ApplySpecialtyLayerKeepsLower(cfg, sp, so) ==
    IF Truthy(sp) /\ sp \in DOMAIN so
    THEN LET o == so[sp]
             keep(d, sec) == IF sec \in DOMAIN o THEN DictUpdate(o[sec], d) ELSE d
         IN  [header |-> keep(cfg.header, "header"),
              footer |-> keep(cfg.footer, "footer")]
    ELSE cfg

ApplySpecialtyLayer(cfg, sp, so) ==
    IF Truthy(sp) /\ sp \in DOMAIN so THEN ApplyOverride(cfg, so[sp]) ELSE cfg

\* _get_level_config(level, specialty) under the tables lo and so.
_get_level_config(lv, sp, lo, so) ==
    ApplySpecialtyLayer(ApplyLevelLayer(BASE_LEVEL_CONFIG, lv, lo), sp, so)

\* No earlier call of _get_level_config.
NoCall == [via |-> "none", level |-> None, specialty |-> None]

\* No call of _get_level_config is in progress.
ConfigIdle ==
    /\ cfg_level = None
    /\ cfg_specialty = None
    /\ config = <<>>
    /\ level_overrides = LEVEL_OVERRIDES
    /\ specialty_overrides = SPECIALTY_OVERRIDES
    /\ base_config = BASE_LEVEL_CONFIG
    /\ cfg_shared = {}
    /\ cfg_via = "none"
    /\ cfg_prev = NoCall
    /\ header_text = None

\* No document is being generated.
NoDoc == [body |-> <<>>, sections |-> <<>>, saved |-> FALSE]

DocIdle ==
    /\ created_entry = None
    /\ generator = "none"
    /\ doc = NoDoc
    /\ part_index = 0
    /\ tables_on_page = 0

-----------------------------------------------------------------------------
(* Inputs.                                                                 *)

SeqsUpTo(S, n) == UNION {[1..k -> S] : k \in 0..n}

\* Records that differ in what group_rows_by_speciality_level reads.
LevelRows ==
    {CSVRow(Day_alithnayn, 1, FALSE, sp[1], sp[2], lv, Txt_L1, Txt_X) :
        sp \in {<<None, None>>, <<None, Txt_comp>>, <<Txt_pow, Txt_comp>>},
        lv \in {None, Txt_100, Txt_100_0, Txt_250_7}}
    \cup {CSVRow(Day_alithnayn, 1, FALSE, Txt_comp, None, lv, Txt_L1, Txt_X) :
            lv \in {Txt_level_words, EmptyStr}}

\* Records that differ in what group_rows_by_location reads.
LocationRows ==
    {CSVRow(Day_alithnayn, sl, FALSE, Txt_comm, None, Txt_100, loc, Txt_X) :
        loc \in {Txt_L1, Txt_L2, Txt_L3}, sl \in {1, 2}}

\* Records that differ in what convert_to_weekly_schedule reads.
GridRows ==
    {CSVRow(d, sl, FALSE, Txt_comm, None, Txt_100, Txt_L1, c) :
        d \in {Day_alahad_plain, Day_alithnayn, Day_aljumua},
        sl \in {1, 2, 5}, c \in {Txt_X, Txt_Y}}

\* Records with every spelling of a day name, and slots 0..5.
DayRows ==
    {CSVRow(d, sl, FALSE, Txt_comm, None, Txt_100, Txt_L1, Txt_X) :
        d \in DayOfWeekValues \cup DOMAIN day_mapping \cup {Day_aljumua},
        sl \in 0..5}

\* Records that fill the cells of a grid with full-slot and half-slot entries.
TableRows ==
    {CSVRow(d, sl, h, Txt_comm, None, Txt_100, Txt_L1, Txt_X) :
        d \in DOMAIN day_mapping, sl \in {1, 2, 4}, h \in BOOLEAN}

-----------------------------------------------------------------------------
(* Partitioning: the four public methods of CSVConverter, each applied to  *)
(* the list csv_rows.                                                      *)

Init ==
    /\ csv_rows \in SeqsUpTo(LevelRows, MaxRows) \cup SeqsUpTo(LocationRows, MaxRows)
    /\ pc = "start"
    /\ grouped_rows = <<>>
    /\ schedules = <<>>
    /\ raised = "none"
    /\ consumed = 0
    /\ weekly_schedule = EmptyWeeklySchedule
    /\ stdout = 0
    /\ table = NoTable
    /\ view = "none"
    /\ day_index = 0
    /\ category_index = 0
    /\ row_index = 0
    /\ reading = "none"
    /\ ConfigIdle
    /\ DocIdle

GroupRowsBySpecialityLevel ==
    /\ pc = "start"
    /\ LET g == group_rows_by_speciality_level(csv_rows)
       IN  /\ grouped_rows' = g.groups
           /\ raised' = g.raised
    /\ pc' = "grouped_by_level"
    /\ UNCHANGED <<configVars, docVars, reading, csv_rows, schedules, consumed, weekly_schedule, stdout, table, view, day_index, category_index, row_index>>

GroupRowsByLocation ==
    /\ pc = "start"
    /\ grouped_rows' = group_rows_by_location(csv_rows)
    /\ pc' = "grouped_by_location"
    /\ UNCHANGED <<configVars, docVars, reading, csv_rows, schedules, raised, consumed, weekly_schedule, stdout,
                   table, view, day_index, category_index, row_index>>

\* One line is printed per group, before the sort.
ConvertToMultiLevelSchedule ==
    /\ pc = "start"
    /\ LET m == convert_to_multi_level_schedule(csv_rows)
       IN  /\ grouped_rows' = m.groups
           /\ schedules' = m.schedules
           /\ raised' = m.raised
           /\ stdout' = Len(m.groups)
    /\ pc' = "multi_level"
    /\ UNCHANGED <<configVars, docVars, reading, csv_rows, consumed, weekly_schedule, table, view, day_index, category_index, row_index>>

ConvertToMultiLocationSchedule ==
    /\ pc = "start"
    /\ LET m == convert_to_multi_location_schedule(csv_rows)
       IN  /\ grouped_rows' = m.groups
           /\ schedules' = m.schedules
           /\ stdout' = Len(m.groups)
    /\ pc' = "multi_location"
    /\ UNCHANGED <<configVars, docVars, reading, csv_rows, raised, consumed, weekly_schedule, table, view, day_index, category_index, row_index>>

Next ==
    \/ GroupRowsBySpecialityLevel
    \/ GroupRowsByLocation
    \/ ConvertToMultiLevelSchedule
    \/ ConvertToMultiLocationSchedule

Spec == Init /\ [][Next]_vars

-----------------------------------------------------------------------------
(* Grid building: the loop of convert_to_weekly_schedule, one record per   *)
(* step.  InitGrid is the state at the loop's entry.                       *)

InitGrid ==
    /\ csv_rows \in SeqsUpTo(GridRows, MaxGridRows) \cup SeqsUpTo(DayRows, MaxDayRows)
    /\ pc = "grid_loop"
    /\ grouped_rows = <<>>
    /\ schedules = <<>>
    /\ raised = "none"
    /\ consumed = 0
    /\ weekly_schedule = EmptyWeeklySchedule
    /\ stdout = 0
    /\ table = NoTable
    /\ view = "none"
    /\ day_index = 0
    /\ category_index = 0
    /\ row_index = 0
    /\ reading = "none"
    /\ ConfigIdle
    /\ DocIdle

ProcessRow ==
    /\ pc = "grid_loop"
    /\ consumed < Len(csv_rows)
    /\ weekly_schedule' = PlaceRow(weekly_schedule, csv_rows[consumed + 1])
    /\ consumed' = consumed + 1
    /\ UNCHANGED <<configVars, docVars, reading, csv_rows, pc, grouped_rows, schedules, raised, stdout, table, view, day_index, category_index, row_index>>

ReturnWeeklySchedule ==
    /\ pc = "grid_loop"
    /\ consumed = Len(csv_rows)
    /\ pc' = "grid_done"
    /\ UNCHANGED <<configVars, docVars, reading, csv_rows, grouped_rows, schedules, raised, consumed,
                   weekly_schedule, stdout, table, view, day_index, category_index,
          row_index>>

NextGrid == ProcessRow \/ ReturnWeeklySchedule

SpecGrid == InitGrid /\ [][NextGrid]_vars

-----------------------------------------------------------------------------
(* Table layout: create_table_structure (full week and location views) and *)
(* create_staff_table_structure on a grid built by the converter.          *)

InitTable ==
    /\ csv_rows = <<>>
    /\ pc = "start"
    /\ grouped_rows = <<>>
    /\ schedules = <<>>
    /\ raised = "none"
    /\ consumed = 0
    /\ weekly_schedule \in {convert_to_weekly_schedule(rows) :
                              rows \in SeqsUpTo(TableRows, MaxEntries)}
    /\ stdout = 0
    /\ table = NoTable
    /\ view = "none"
    /\ day_index = 0
    /\ category_index = 0
    /\ row_index = 0
    /\ reading = "none"
    /\ ConfigIdle
    /\ DocIdle

CreateTableStructure ==
    /\ pc = "start"
    /\ view' = "full"
    /\ table' = add_table(TOTAL_ROWS, TOTAL_COLUMNS)
    /\ pc' = "table_added"
    /\ UNCHANGED <<configVars, docVars, reading, csv_rows, grouped_rows, schedules, raised, consumed,
                   weekly_schedule, stdout, day_index, category_index, row_index>>

CreateStaffTableStructure ==
    /\ pc = "start"
    /\ view' = "staff"
    /\ LET active_days == ActiveDays(weekly_schedule)
       IN  IF active_days = <<>>
           THEN /\ table' = NoTable
                /\ pc' = "no_table"
           ELSE /\ table' = add_table(Len(active_days) * ROWS_PER_DAY + 1, TOTAL_COLUMNS)
                /\ pc' = "table_added"
    /\ UNCHANGED <<configVars, docVars, reading, csv_rows, grouped_rows, schedules, raised, consumed,
                   weekly_schedule, stdout, day_index, category_index, row_index>>

\* _fill_header_row, then the "row_index = CONTENT_START_ROW_INDEX" that
\* opens _fill_content_rows / _fill_staff_content_rows.
FillHeaderRow ==
    /\ pc = "table_added"
    /\ table' = _fill_header_row(table)
    /\ row_index' = CONTENT_START_ROW_INDEX
    /\ pc' = "header_filled"
    /\ UNCHANGED <<configVars, docVars, reading, csv_rows, grouped_rows, schedules, raised, consumed,
                   weekly_schedule, stdout, view, day_index, category_index>>

\* The loop counters after one more row; the fill ends after the last row of
\* the last of n days.
AdvanceRow(n) ==
    /\ row_index' = row_index + 1
    /\ category_index' = (category_index + 1) % Len(detail_categories)
    /\ day_index' = IF category_index + 1 = Len(detail_categories)
                    THEN day_index + 1 ELSE day_index
    /\ pc' = IF category_index + 1 = Len(detail_categories) /\ day_index + 1 = n
             THEN "content_filled" ELSE pc

\* _fill_content_rows: one row of one day of days_arabic.
FillContentRowStep ==
    /\ pc = "header_filled"
    /\ view = "full"
    /\ day_index < Len(days_arabic)
    /\ table' = FillContentRow(table, weekly_schedule, row_index, day_index,
                               category_index)
    /\ AdvanceRow(Len(days_arabic))
    /\ UNCHANGED <<configVars, docVars, reading, csv_rows, grouped_rows, schedules, raised, consumed,
                   weekly_schedule, stdout, view>>

\* _fill_staff_content_rows: one row of one day of active_days.
FillStaffContentRowStep ==
    /\ pc = "header_filled"
    /\ view = "staff"
    /\ day_index < Len(ActiveDays(weekly_schedule))
    /\ table' = FillStaffContentRow(table, weekly_schedule, ActiveDays(weekly_schedule),
                                    row_index, day_index, category_index)
    /\ AdvanceRow(Len(ActiveDays(weekly_schedule)))
    /\ UNCHANGED <<configVars, docVars, reading, csv_rows, grouped_rows, schedules, raised, consumed,
                   weekly_schedule, stdout, view>>

\* self._apply_formatting(table)
ApplyFormatting ==
    /\ pc = "content_filled"
    /\ table' = _apply_formatting(table)
    /\ pc' = "formatted"
    /\ UNCHANGED <<configVars, docVars, reading, csv_rows, grouped_rows, schedules, raised,
                   consumed, weekly_schedule, stdout, view, day_index,
                   category_index, row_index>>

\* self._apply_table_outline_borders(table); create_*_table_structure returns.
ApplyTableOutlineBorders ==
    /\ pc = "formatted"
    /\ table' = _apply_table_outline_borders(table)
    /\ pc' = "outlined"
    /\ UNCHANGED <<configVars, docVars, reading, csv_rows, grouped_rows, schedules, raised,
                   consumed, weekly_schedule, stdout, view, day_index,
                   category_index, row_index>>

\* doc.save(output_path).  A w:tcPr with several w:tcBorders children is not
\* what the document format allows (at most one); which of them a reader of
\* the saved file applies is the reader's choice.
Readings == {"first", "last"}

SaveDocument ==
    /\ pc = "outlined"
    /\ reading' \in Readings
    /\ pc' = "saved"
    /\ UNCHANGED <<configVars, docVars, csv_rows, grouped_rows, schedules, raised,
                   consumed, weekly_schedule, stdout, table, view, day_index,
                   category_index, row_index>>

NextTable ==
    \/ CreateTableStructure
    \/ CreateStaffTableStructure
    \/ FillHeaderRow
    \/ FillContentRowStep
    \/ FillStaffContentRowStep
    \/ ApplyFormatting
    \/ ApplyTableOutlineBorders
    \/ SaveDocument

SpecTable == InitTable /\ [][NextTable]_vars

-----------------------------------------------------------------------------
(* Config resolution: _get_level_config(level, specialty), one step per     *)
(* layer.  The override tables are module-level dicts meant to be edited;   *)
(* besides the tables of the source the model runs the function on two      *)
(* edited ones: one whose specialty layer sets fields the level layer sets  *)
(* too and has a header section, one whose level layer has no header        *)
(* section and replaces a field of the base.                               *)

Txt_250 == <<50, 53, 48>>              \* "250"

ConfigLevels == {Txt_100, Txt_200, Txt_300, Txt_400, Txt_250, DEFAULT_LABEL}

ConfigSpecialties == {None, EmptyStr, Txt_comm, Txt_pow, Txt_comp, Txt_X}

SPECIALTY_OVERRIDES_Overlapping ==
    (Txt_comm :> [header |-> [level_prefix |-> Txt_X],
                  footer |-> [program_manager_title |-> Txt_Y,
                              program_manager_name |-> Txt_T]])
    @@ (Txt_pow :> SPECIALTY_OVERRIDES[Txt_pow])

LEVEL_OVERRIDES_FooterOnly ==
    (Txt_300 :> [footer |-> [dean_name |-> Txt_T]])
    @@ LEVEL_OVERRIDES

ConfigTables ==
    {[lo |-> LEVEL_OVERRIDES, so |-> SPECIALTY_OVERRIDES],
     [lo |-> LEVEL_OVERRIDES, so |-> SPECIALTY_OVERRIDES_Overlapping],
     [lo |-> LEVEL_OVERRIDES_FooterOnly, so |-> SPECIALTY_OVERRIDES]}

\* allowed_levels
allowed_levels == <<Txt_100, Txt_200, Txt_300, Txt_400>>

_validate_level_AcceptsAll(level) == [raised |-> "none", value |-> level]

\* WordGenerator._validate_level: [raised, value].
_validate_level(level) ==
    IF InSeq(level, allowed_levels)
    THEN [raised |-> "none", value |-> level]
    ELSE [raised |-> "ValueError", value |-> None]

\* A copy of the dict d: its value and the sections that are still the same
\* dict object as in d.  copy.copy(d) would share every section.
deepcopy_Shallow(d) == [value |-> d, shared |-> DOMAIN d]

deepcopy(d) == [value |-> d, shared |-> {}]

\* The dict base after config's section dicts were written: a section that is
\* the same object in both shows the write in both.
WrittenThrough(base, cfg, shared) ==
    [sec \in DOMAIN base |-> IF sec \in shared THEN cfg[sec] ELSE base[sec]]

Txt_space == <<32>>                    \* " "

\* f"{header_config['level_prefix']} {_get_mapped_level(level)}
\*    {header_config['division_prefix']} {_get_mapped_speciality(speciality, level)}"
LevelLine(header_config, speciality, level) ==
    Str(header_config.level_prefix) \o Txt_space \o Str(_get_mapped_level(level))
        \o Txt_space \o Str(header_config.division_prefix) \o Txt_space
        \o Str(_get_mapped_speciality(speciality, level))

\* A call of the module function _get_level_config, or of
\* WordGenerator._fill_header_content, which resolves through the method
\* WordGenerator._get_level_config.
ConfigCall(via, lv, sp) ==
    /\ cfg_via = via
    /\ cfg_level = lv
    /\ cfg_specialty = sp
    /\ config = <<>>
    /\ header_text = None
    /\ pc = IF via = "method" THEN "method_start" ELSE "config_start"

InitConfig ==
    /\ csv_rows = <<>>
    /\ grouped_rows = <<>>
    /\ schedules = <<>>
    /\ raised = "none"
    /\ consumed = 0
    /\ weekly_schedule = EmptyWeeklySchedule
    /\ stdout = 0
    /\ table = NoTable
    /\ view = "none"
    /\ day_index = 0
    /\ category_index = 0
    /\ row_index = 0
    /\ reading = "none"
    /\ DocIdle
    /\ \E via \in {"function", "method"}, lv \in ConfigLevels,
          sp \in ConfigSpecialties :
          ConfigCall(via, lv, sp)
    /\ \E tables \in ConfigTables :
          /\ level_overrides = tables.lo
          /\ specialty_overrides = tables.so
    /\ base_config = BASE_LEVEL_CONFIG
    /\ cfg_shared = {}
    /\ cfg_prev = NoCall

nonConfigVars ==
    <<csv_rows, grouped_rows, schedules, consumed, weekly_schedule,
      stdout, table, view, day_index, category_index, row_index, reading,
      docVars>>

\* validated_level = self._validate_level(level)
ValidateLevel ==
    /\ pc = "method_start"
    /\ LET v == _validate_level(cfg_level)
       IN  /\ raised' = v.raised
           /\ pc' = IF v.raised = "none" THEN "config_start" ELSE "config_raised"
    /\ UNCHANGED <<nonConfigVars, cfg_level, cfg_specialty, config,
                   level_overrides, specialty_overrides, base_config,
                   cfg_shared, cfg_via, cfg_prev, header_text>>

\* config = copy.deepcopy(BASE_LEVEL_CONFIG)
CopyBaseConfig ==
    /\ pc = "config_start"
    /\ LET c == deepcopy(base_config)
       IN  /\ config' = c.value
           /\ cfg_shared' = c.shared
    /\ pc' = "base_copied"
    /\ UNCHANGED <<nonConfigVars, raised, cfg_level, cfg_specialty,
                   level_overrides, specialty_overrides, base_config, cfg_via,
                   cfg_prev, header_text>>

\* "Apply level-specific overrides if they exist"
ApplyLevelOverrides ==
    /\ pc = "base_copied"
    /\ config' = ApplyLevelLayer(config, cfg_level, level_overrides)
    /\ base_config' = WrittenThrough(base_config, config', cfg_shared)
    /\ pc' = "level_applied"
    /\ UNCHANGED <<nonConfigVars, raised, cfg_level, cfg_specialty,
                   level_overrides, specialty_overrides, cfg_shared, cfg_via,
                   cfg_prev, header_text>>

\* "Apply specialty-specific overrides if they exist"; return config
ApplySpecialtyOverrides ==
    /\ pc = "level_applied"
    /\ config' = ApplySpecialtyLayer(config, cfg_specialty, specialty_overrides)
    /\ base_config' = WrittenThrough(base_config, config', cfg_shared)
    /\ pc' = "config_returned"
    /\ UNCHANGED <<nonConfigVars, raised, cfg_level, cfg_specialty,
                   level_overrides, specialty_overrides, cfg_shared, cfg_via,
                   cfg_prev, header_text>>

\* _fill_header_content after level_config = self._get_level_config(...):
\* the text of the third row of the left column.
FillHeaderContent ==
    /\ pc = "config_returned"
    /\ cfg_via = "method"
    /\ header_text' = LevelLine(config.header, cfg_specialty, cfg_level)
    /\ pc' = "header_filled"
    /\ UNCHANGED <<nonConfigVars, raised, cfg_level, cfg_specialty, config,
                   level_overrides, specialty_overrides, base_config,
                   cfg_shared, cfg_via, cfg_prev>>

\* The call is over (returned or raised); the next call is made.
NextResolution ==
    /\ \/ pc = "config_returned" /\ cfg_via = "function"
       \/ pc \in {"header_filled", "config_raised"}
    /\ cfg_prev' = [via |-> cfg_via, level |-> cfg_level,
                    specialty |-> cfg_specialty]
    /\ raised' = "none"
    /\ \E via \in {"function", "method"}, lv \in ConfigLevels,
          sp \in ConfigSpecialties :
          /\ cfg_via' = via
          /\ cfg_level' = lv
          /\ cfg_specialty' = sp
          /\ pc' = IF via = "method" THEN "method_start" ELSE "config_start"
    /\ config' = <<>>
    /\ header_text' = None
    /\ UNCHANGED <<nonConfigVars, level_overrides, specialty_overrides,
                   base_config, cfg_shared>>

NextConfig ==
    \/ ValidateLevel
    \/ CopyBaseConfig
    \/ ApplyLevelOverrides
    \/ ApplySpecialtyOverrides
    \/ FillHeaderContent
    \/ NextResolution

SpecConfig == InitConfig /\ [][NextConfig]_vars

-----------------------------------------------------------------------------
(* CSVConverter.create_schedule_entry applied to one record.                *)

\* Records that differ in what create_schedule_entry reads and in the
\* fields main_tutor and helping_stuff, each present or None.
EntryRows ==
    {[CSVRow(Day_alithnayn, 1, h, Txt_comm, None, Txt_100, Txt_L1, c)
         EXCEPT !.code = cd, !.main_tutor = mt, !.main_tutor_write = mtw,
                !.helping_stuff = hs, !.helping_stuff_write = hsw] :
        h \in BOOLEAN, c \in {None, Txt_X}, cd \in {None, Txt_code},
        mt \in {None, Txt_T}, mtw \in {None, Txt_Y},
        hs \in {None, Txt_H}, hsw \in {None, Txt_L2}}

InitEntry ==
    /\ csv_rows \in {<<r>> : r \in EntryRows}
    /\ pc = "entry_start"
    /\ grouped_rows = <<>>
    /\ schedules = <<>>
    /\ raised = "none"
    /\ consumed = 0
    /\ weekly_schedule = EmptyWeeklySchedule
    /\ stdout = 0
    /\ table = NoTable
    /\ view = "none"
    /\ day_index = 0
    /\ category_index = 0
    /\ row_index = 0
    /\ reading = "none"
    /\ ConfigIdle
    /\ DocIdle

CreateScheduleEntry ==
    /\ pc = "entry_start"
    /\ created_entry' = create_schedule_entry(csv_rows[1])
    /\ pc' = "entry_created"
    /\ UNCHANGED <<configVars, reading, csv_rows, grouped_rows, schedules,
                   raised, consumed, weekly_schedule, stdout, table, view,
                   day_index, category_index, row_index, generator, doc,
                   part_index, tables_on_page>>

NextEntry == CreateScheduleEntry

SpecEntry == InitEntry /\ [][NextEntry]_vars

-----------------------------------------------------------------------------
(* word_generator.py: documents with one section or one titled table per    *)
(* schedule.  A document is its body (the block elements in order, a        *)
(* section break being the paragraph that carries the w:sectPr of the       *)
(* section it ends), its sections and whether it was saved.  A header or    *)
(* footer is linked to the previous section or has a definition of its own  *)
(* with cells.                                                             *)

MaxPartitions == 3

MaxStaff == 5

BlankHeader == [right |-> <<>>, center |-> <<>>, left |-> <<>>]

NoHeader == [linked |-> TRUE, cells |-> BlankHeader]

NoFooter == [linked |-> TRUE, cells |-> <<>>, info |-> FALSE]

\* A section as Document() and doc.add_section() deliver it: it starts on a
\* new page and has no header or footer definition.
NewSection == [start |-> "new_page", header |-> NoHeader, footer |-> NoFooter]

\* create_document
create_document == [body |-> <<>>, sections |-> <<NewSection>>, saved |-> FALSE]

\* A block element of the body, made while schedule number part was handled.
Element(kind, part) == [kind |-> kind, part |-> part]

add_page_break(d, part) == [d EXCEPT !.body = Append(@, Element("page_break", part))]

add_paragraph(d, part) == [d EXCEPT !.body = Append(@, Element("paragraph", part))]

add_title(d, part) == [d EXCEPT !.body = Append(@, Element("title", part))]

add_section(d, part) ==
    [d EXCEPT !.body = Append(@, Element("section_break", part)),
              !.sections = Append(@, NewSection)]

\* create_table_structure / create_staff_table_structure with at least one
\* active day: one table at the end of the body.
add_schedule_table(d, part) == [d EXCEPT !.body = Append(@, Element("table", part))]

\* section.header.is_linked_to_previous = False and the same for the footer:
\* a linked header or footer gets an empty definition of its own.
UnlinkLeavesLinked(d, k) == d

Unlink(d, k) ==
    [d EXCEPT !.sections[k].header =
                  IF @.linked THEN [linked |-> FALSE, cells |-> BlankHeader] ELSE @,
              !.sections[k].footer =
                  IF @.linked
                  THEN [linked |-> FALSE, cells |-> <<>>, info |-> FALSE] ELSE @]

\* The section whose definition section k's header (which = "header") or
\* footer resolves to: its own, or that of the nearest earlier section that
\* has one, or one that is then added to the first section.
DefinitionOf(sections, k, which) ==
    LET own == {j \in 1..k : ~sections[j][which].linked}
    IN  IF own = {} THEN 1 ELSE CHOOSE j \in own : \A i \in own : i <= j

\* The cells of a header table.
HeaderCells(header_config, line) ==
    [right |-> <<header_config.university_name, header_config.faculty_name,
                 header_config.department_prefix>>,
     center |-> <<header_config.schedule_template>>,
     left |-> <<header_config.academic_year, header_config.semester, line>>]

\* WordGenerator._get_level_config: [raised, config].
WordGenerator_get_level_config(level, specialty) ==
    LET v == _validate_level(level)
    IN  IF v.raised # "none"
        THEN [raised |-> v.raised, config |-> <<>>]
        ELSE [raised |-> "none",
              config |-> _get_level_config(v.value, specialty, level_overrides,
                                           specialty_overrides)]

\* WordGenerator._add_header_to_section: [raised, doc].  The header is
\* cleared and gets an empty table before the config is resolved.
_add_header_to_section(d, k, speciality, level) ==
    LET t == DefinitionOf(d.sections, k, "header")
        r == WordGenerator_get_level_config(level, speciality)
    IN  IF r.raised # "none"
        THEN [raised |-> r.raised,
              doc |-> [d EXCEPT !.sections[t].header =
                                    [linked |-> FALSE, cells |-> BlankHeader]]]
        ELSE [raised |-> "none",
              doc |-> [d EXCEPT !.sections[t].header =
                          [linked |-> FALSE,
                           cells |-> HeaderCells(r.config.header,
                                        LevelLine(r.config.header, speciality, level))]]]

Txt_occupancy == <<1580, 1583, 1608, 1604, 32, 1573, 1588, 1594, 1575, 1604, 32>>
                                       \* "جدول إشغال "

\* LocationWordGenerator._add_header_to_section
Location_add_header_to_section(d, k, location) ==
    LET t == DefinitionOf(d.sections, k, "header")
    IN  [d EXCEPT !.sections[t].header =
            [linked |-> FALSE,
             cells |-> HeaderCells(base_config.header,
                                   Txt_occupancy \o Str(location))]]

\* _fill_footer_content: [raised, cells], the columns (title, name) of the
\* footer table that were written.
_fill_footer_content(footer_config) ==
    LET three == <<<<footer_config.dean_title, footer_config.dean_name>>,
                   <<footer_config.vice_dean_title, footer_config.vice_dean_name>>,
                   <<footer_config.head_department_title,
                     footer_config.head_department_name>>>>
    IN  IF "program_manager_title" \in DOMAIN footer_config
        THEN IF "program_manager_name" \in DOMAIN footer_config
             THEN [raised |-> "none",
                   cells |-> Append(three, <<footer_config.program_manager_title,
                                             footer_config.program_manager_name>>)]
             ELSE [raised |-> "KeyError",
                   cells |-> Append(three, <<footer_config.program_manager_title>>)]
        ELSE [raised |-> "none", cells |-> three]

\* WordGenerator._add_footer_to_section: [raised, doc].
_add_footer_to_section(d, k, level, specialty) ==
    LET t == DefinitionOf(d.sections, k, "footer")
        r == WordGenerator_get_level_config(level, specialty)
        f == _fill_footer_content(r.config.footer)
    IN  IF r.raised # "none"
        THEN [raised |-> r.raised,
              doc |-> [d EXCEPT !.sections[t].footer =
                          [linked |-> FALSE, cells |-> <<>>, info |-> FALSE]]]
        ELSE [raised |-> f.raised,
              doc |-> [d EXCEPT !.sections[t].footer =
                          [linked |-> FALSE, cells |-> f.cells,
                           info |-> f.raised = "none"]]]

\* The section of schedule number i (from 1): the default section for the
\* first, else a page break and a new section; unlinked in both cases.
OpenSectionReusesFirst(d, i) == Unlink(d, 1)

OpenSection(d, i) ==
    IF i > 1
    THEN LET d1 == add_section(add_page_break(d, i), i)
         IN  Unlink(d1, Len(d1.sections))
    ELSE Unlink(d, 1)

\* Body of the loop of generate_multi_level_word_document: [raised, doc].
LevelSection(d, i, schedule) ==
    LET d1 == OpenSection(d, i)
        k == Len(d1.sections)
        h == _add_header_to_section(d1, k, schedule.speciality, schedule.level)
        f == _add_footer_to_section(h.doc, k, schedule.level, schedule.speciality)
    IN  IF h.raised # "none" THEN h
        ELSE IF f.raised # "none" THEN f
        ELSE [raised |-> "none",
              doc |-> add_schedule_table(add_paragraph(f.doc, i), i)]

\* Body of the loop of generate_multi_location_word_document: [raised, doc].
LocationSection(d, i, schedule) ==
    LET d1 == OpenSection(d, i)
        k == Len(d1.sections)
        h == Location_add_header_to_section(d1, k, schedule.location)
        f == _add_footer_to_section(h, k, Txt_100, Txt_comm)
    IN  IF f.raised # "none" THEN f
        ELSE [raised |-> "none",
              doc |-> add_schedule_table(add_paragraph(f.doc, i), i)]

MAX_TABLES_PER_PAGE == 2

\* Body of the loop of generate_multi_staff_word_document:
\* [doc, tables_on_page].
StaffTableNeverBreaks(d, i, schedule, on_page) ==
    IF ActiveDays(schedule.weekly_schedule) = <<>>
    THEN [doc |-> d, tables_on_page |-> on_page]
    ELSE [doc |-> add_schedule_table(add_title(d, i), i),
          tables_on_page |-> on_page + 1]

StaffTable(d, i, schedule, on_page) ==
    IF ActiveDays(schedule.weekly_schedule) = <<>>
    THEN [doc |-> d, tables_on_page |-> on_page]
    ELSE LET brk == on_page >= MAX_TABLES_PER_PAGE
             d1 == IF brk THEN add_page_break(d, i) ELSE d
         IN  [doc |-> add_schedule_table(add_title(d1, i), i),
              tables_on_page |-> (IF brk THEN 0 ELSE on_page) + 1]

\* Records of the six specialty-level combinations of the documents.
DocLevelRows ==
    {CSVRow(Day_alithnayn, 1, FALSE, k[1], None, k[2], Txt_L1, Txt_X) :
        k \in {<<Txt_comm, Txt_100>>, <<Txt_comm, Txt_300>>,
               <<Txt_comp, Txt_100>>, <<Txt_comp, Txt_400>>,
               <<Txt_pow, Txt_200>>, <<Txt_pow, Txt_250>>}}

DocLocationRows ==
    {CSVRow(Day_alithnayn, 1, FALSE, Txt_comm, None, Txt_100, loc, Txt_X) :
        loc \in {Txt_L1, Txt_L2, Txt_L3}}

\* Staff schedules: with an active day, or with none.
StaffSchedules ==
    {[staff_name |-> Txt_T,
      weekly_schedule |-> convert_to_weekly_schedule(
          <<CSVRow(Day_alithnayn, 1, FALSE, Txt_comm, None, Txt_100, Txt_L1, Txt_X)>>)],
     [staff_name |-> Txt_H, weekly_schedule |-> EmptyWeeklySchedule]}

InitDoc ==
    /\ \/ /\ generator = "level"
          /\ csv_rows \in SeqsUpTo(DocLevelRows, MaxPartitions)
          /\ schedules = convert_to_multi_level_schedule(csv_rows).schedules
       \/ /\ generator = "location"
          /\ csv_rows \in SeqsUpTo(DocLocationRows, MaxPartitions)
          /\ schedules = convert_to_multi_location_schedule(csv_rows).schedules
       \/ /\ generator = "staff"
          /\ csv_rows = <<>>
          /\ schedules \in SeqsUpTo(StaffSchedules, MaxStaff)
    /\ pc = "doc_start"
    /\ grouped_rows = <<>>
    /\ raised = "none"
    /\ consumed = 0
    /\ weekly_schedule = EmptyWeeklySchedule
    /\ stdout = 0
    /\ table = NoTable
    /\ view = "none"
    /\ day_index = 0
    /\ category_index = 0
    /\ row_index = 0
    /\ reading = "none"
    /\ ConfigIdle
    /\ created_entry = None
    /\ doc = NoDoc
    /\ part_index = 0
    /\ tables_on_page = 0

nonDocVars ==
    <<configVars, reading, csv_rows, grouped_rows, schedules, consumed,
      weekly_schedule, table, view, day_index, category_index, row_index,
      created_entry, generator>>

\* doc = self.create_document()
CreateDocument ==
    /\ pc = "doc_start"
    /\ generator \in {"level", "location"}
    /\ doc' = create_document
    /\ pc' = "doc_loop"
    /\ UNCHANGED <<nonDocVars, raised, stdout, part_index, tables_on_page>>

\* generate_multi_staff_word_document up to its loop: the document with the
\* generic header and footer in its only section.
CreateStaffDocument ==
    /\ pc = "doc_start"
    /\ generator = "staff"
    /\ LET h == _add_header_to_section(Unlink(create_document, 1), 1, EmptyStr, Txt_100)
           f == _add_footer_to_section(h.doc, 1, Txt_100, Txt_comm)
       IN  /\ doc' = f.doc
           /\ raised' = IF h.raised # "none" THEN h.raised ELSE f.raised
    /\ tables_on_page' = 0
    /\ pc' = IF raised' = "none" THEN "doc_loop" ELSE "doc_raised"
    /\ UNCHANGED <<nonDocVars, stdout, part_index>>

GenerateLevelSection ==
    /\ pc = "doc_loop"
    /\ generator = "level"
    /\ part_index < Len(schedules)
    /\ LET r == LevelSection(doc, part_index + 1, schedules[part_index + 1])
       IN  /\ doc' = r.doc
           /\ raised' = r.raised
           /\ pc' = IF r.raised = "none" THEN "doc_loop" ELSE "doc_raised"
    /\ part_index' = part_index + 1
    /\ stdout' = stdout + 1
    /\ UNCHANGED <<nonDocVars, tables_on_page>>

GenerateLocationSection ==
    /\ pc = "doc_loop"
    /\ generator = "location"
    /\ part_index < Len(schedules)
    /\ LET r == LocationSection(doc, part_index + 1, schedules[part_index + 1])
       IN  /\ doc' = r.doc
           /\ raised' = r.raised
           /\ pc' = IF r.raised = "none" THEN "doc_loop" ELSE "doc_raised"
    /\ part_index' = part_index + 1
    /\ stdout' = stdout + 1
    /\ UNCHANGED <<nonDocVars, tables_on_page>>

GenerateStaffTable ==
    /\ pc = "doc_loop"
    /\ generator = "staff"
    /\ part_index < Len(schedules)
    /\ LET r == StaffTable(doc, part_index + 1, schedules[part_index + 1],
                           tables_on_page)
       IN  /\ doc' = r.doc
           /\ tables_on_page' = r.tables_on_page
    /\ part_index' = part_index + 1
    /\ stdout' = stdout + 1
    /\ UNCHANGED <<nonDocVars, raised, pc>>

\* doc.save(output_path)
SaveMultiDocument ==
    /\ pc = "doc_loop"
    /\ part_index = Len(schedules)
    /\ doc' = [doc EXCEPT !.saved = TRUE]
    /\ pc' = "doc_saved"
    /\ UNCHANGED <<nonDocVars, raised, stdout, part_index, tables_on_page>>

NextDoc ==
    \/ CreateDocument
    \/ CreateStaffDocument
    \/ GenerateLevelSection
    \/ GenerateLocationSection
    \/ GenerateStaffTable
    \/ SaveMultiDocument

SpecDoc == InitDoc /\ [][NextDoc]_vars

-----------------------------------------------------------------------------
(* Properties of the partitioner (specification Spec).                     *)

Range(f) == {f[k] : k \in DOMAIN f}

GroupingReturned ==
    \/ pc \in {"grouped_by_level", "multi_level"} /\ raised = "none"
    \/ pc \in {"grouped_by_location", "multi_location"}

LevelGrouping == pc \in {"grouped_by_level", "multi_level"} /\ raised = "none"

LocationGrouping == pc \in {"grouped_by_location", "multi_location"}

\* The key the selected grouping gives the record at position i.
LevelKeyAt(i) == <<SpecialityOf(csv_rows[i]), get_level(csv_rows[i]).value>>

LocationKeyAt(i) == csv_rows[i].location

HoldsAllInOrder(group, positions) ==
    /\ Range(group.rows) = positions
    /\ Len(group.rows) = Cardinality(positions)
    /\ \A k \in 1..(Len(group.rows) - 1) : group.rows[k] < group.rows[k + 1]

\* C2: the partitioner returns exactly one partition per distinct key of the
\* input, and each partition holds all the records with its key in the order
\* of the input (so the last record for a (day, slot) is last in its group).
C2_OnePartitionPerKeyInInputOrder ==
    /\ LevelGrouping =>
          /\ {grouped_rows[g].key : g \in DOMAIN grouped_rows}
                 = {LevelKeyAt(i) : i \in DOMAIN csv_rows}
          /\ \A g, h \in DOMAIN grouped_rows :
                 g # h => grouped_rows[g].key # grouped_rows[h].key
          /\ \A g \in DOMAIN grouped_rows :
                 HoldsAllInOrder(grouped_rows[g],
                     {i \in DOMAIN csv_rows : LevelKeyAt(i) = grouped_rows[g].key})
    /\ LocationGrouping =>
          /\ {grouped_rows[g].key : g \in DOMAIN grouped_rows}
                 = {LocationKeyAt(i) : i \in DOMAIN csv_rows}
          /\ \A g, h \in DOMAIN grouped_rows :
                 g # h => grouped_rows[g].key # grouped_rows[h].key
          /\ \A g \in DOMAIN grouped_rows :
                 HoldsAllInOrder(grouped_rows[g],
                     {i \in DOMAIN csv_rows : LocationKeyAt(i) = grouped_rows[g].key})

C2_Witness ==
    /\ pc = "grouped_by_location"
    /\ Len(csv_rows) = 3
    /\ Len(grouped_rows) = 2
    /\ grouped_rows[1].rows = <<1, 3>>
    /\ csv_rows[1].slot = csv_rows[3].slot

\* C3: the schedules of convert_to_multi_level_schedule are in strictly
\* ascending order of (specialty, level), those of
\* convert_to_multi_location_schedule in strictly ascending order of location,
\* with one schedule per group, whatever the order of the input.
C3_SchedulesSortedByKey ==
    /\ (pc = "multi_level" /\ raised = "none") =>
          /\ Len(schedules) = Len(grouped_rows)
          /\ {<<schedules[k].speciality, schedules[k].level>> : k \in DOMAIN schedules}
                 = {grouped_rows[g].key : g \in DOMAIN grouped_rows}
          /\ \A k \in 1..(Len(schedules) - 1) :
                 TupleLess(<<schedules[k].speciality, schedules[k].level>>,
                           <<schedules[k + 1].speciality, schedules[k + 1].level>>)
    /\ pc = "multi_location" =>
          /\ Len(schedules) = Len(grouped_rows)
          /\ {schedules[k].location : k \in DOMAIN schedules}
                 = {grouped_rows[g].key : g \in DOMAIN grouped_rows}
          /\ \A k \in 1..(Len(schedules) - 1) :
                 StrLess(schedules[k].location, schedules[k + 1].location)

\* Three records, two groups, met in descending key order.
C3_Witness ==
    /\ pc = "multi_level" /\ raised = "none"
    /\ Len(csv_rows) = 3
    /\ Len(grouped_rows) = 2
    /\ TupleLess(grouped_rows[2].key, grouped_rows[1].key)
    /\ schedules[1].speciality = grouped_rows[2].key[1]

\* C4: partitioning by (specialty, level) never raises, and assigns every
\* record to a partition, whatever its level field holds.
C4_GroupingNeverRaises ==
    pc \in {"grouped_by_level", "multi_level"} =>
        /\ raised = "none"
        /\ \A i \in DOMAIN csv_rows :
               \E g \in DOMAIN grouped_rows : i \in Range(grouped_rows[g].rows)

-----------------------------------------------------------------------------
(* Properties of the grid builder (specification SpecGrid).                *)

Addresses(csv_row, d, s) ==
    /\ csv_row.day \in DOMAIN day_mapping /\ day_mapping[csv_row.day] = d
    /\ csv_row.slot \in DOMAIN slot_mapping /\ slot_mapping[csv_row.slot] = s

Unresolved(csv_row) ==
    csv_row.day \notin DOMAIN day_mapping \/ csv_row.slot \notin DOMAIN slot_mapping

MaxOf(S) == CHOOSE x \in S : \A y \in S : y <= x

\* C5: last write wins.  After any number of records has been processed,
\* each (day, slot) cell holds the entry built from the last processed record
\* that addresses it and is empty iff none does; nothing was raised and
\* nothing was printed.
C5_LastWriteWins ==
    pc \in {"grid_loop", "grid_done"} =>
        /\ raised = "none"
        /\ stdout = 0
        /\ \A d \in WeekKeySet, s \in SlotKeySet :
               LET writers == {k \in 1..consumed : Addresses(csv_rows[k], d, s)}
               IN  IF writers = {}
                   THEN weekly_schedule[d][s] = NoEntry
                   ELSE weekly_schedule[d][s]
                            = create_schedule_entry(csv_rows[MaxOf(writers)])

\* Scenario A: two records for one cell with different courses.
C5_Witness ==
    /\ pc = "grid_done"
    /\ Len(csv_rows) = 2
    /\ Addresses(csv_rows[1], "monday", "first")
    /\ Addresses(csv_rows[2], "monday", "first")
    /\ csv_rows[1].course_name = Txt_X
    /\ csv_rows[2].course_name = Txt_Y
    /\ weekly_schedule["monday"]["first"] = create_schedule_entry(csv_rows[2])

\* C6: a record whose day or slot does not resolve is skipped without
\* raising: the step that consumes it leaves the grid as it was and moves on
\* to the next record, and the loop ends only when every record was consumed.
C6_UnresolvedRecordSkipped ==
    /\ [][(pc = "grid_loop" /\ consumed < Len(csv_rows)
             /\ Unresolved(csv_rows[consumed + 1]))
          => /\ weekly_schedule' = weekly_schedule
             /\ raised' = "none"
             /\ consumed' = consumed + 1
             /\ pc' = "grid_loop"]_vars
    /\ [](pc = "grid_done" => consumed = Len(csv_rows))

\* A skipped record followed by one that is placed.
C6_Witness ==
    /\ pc = "grid_done"
    /\ Len(csv_rows) = 2
    /\ Unresolved(csv_rows[1])
    /\ Addresses(csv_rows[2], "sunday", "second")
    /\ weekly_schedule["sunday"]["second"] = create_schedule_entry(csv_rows[2])
    /\ \A d \in WeekKeySet, s \in SlotKeySet :
           <<d, s>> # <<"sunday", "second">> => weekly_schedule[d][s] = NoEntry

\* The mapping the converter's test expects (tests/test_csv_converter.py).
expected_mapping ==
    (DayOfWeek.SUNDAY :> "sunday") @@ (DayOfWeek.MONDAY :> "monday") @@
    (DayOfWeek.TUESDAY :> "tuesday") @@ (DayOfWeek.WEDNESDAY :> "wednesday") @@
    (DayOfWeek.THURSDAY :> "thursday")

\* C7: day_mapping is the mapping of the five DayOfWeek names, hence a record
\* that carries one of these names and a slot in 1..4 is placed in the cell
\* of that day and slot when it is processed.
C7_DayOfWeekRecordsPlaced ==
    (pc = "grid_loop" /\ consumed > 0) =>
        LET csv_row == csv_rows[consumed]
        IN  (csv_row.day \in DayOfWeekValues /\ csv_row.slot \in 1..4) =>
                /\ DictGet(day_mapping, csv_row.day) = expected_mapping[csv_row.day]
                /\ weekly_schedule[expected_mapping[csv_row.day]][slot_mapping[csv_row.slot]]
                       = create_schedule_entry(csv_row)

-----------------------------------------------------------------------------
(* Properties of the table layout (specification SpecTable).               *)

Occupied(d) == \E s \in SlotKeySet : weekly_schedule[d][s] # NoEntry

\* The days a finished table of the current view has to show, in week order.
IncludedDays ==
    IF view = "full" THEN WEEK_KEYS ELSE SelectSeq(WEEK_KEYS, Occupied)

\* The label of a day key: DayOfWeek in week order.
DayLabel(d) ==
    CHOOSE l \in DayOfWeekValues :
        \E k \in 1..Len(WEEK_KEYS) :
            /\ WEEK_KEYS[k] = d
            /\ l = <<DayOfWeek.SUNDAY, DayOfWeek.MONDAY, DayOfWeek.TUESDAY,
                     DayOfWeek.WEDNESDAY, DayOfWeek.THURSDAY>>[k]

\* Row of category c (0..3) in the k-th day block (k = 1, 2, ...).
BlockRow(k, c) == 1 + 4 * (k - 1) + c

\* The text the cell that answers at grid position (r, c) shows.
TextAt(r, c) == CellText(table, CellAt(table, r, c))

\* The field of an entry that belongs to category row c (0..3).
FieldOf(entry, c) ==
    <<entry.course_name, entry.location, entry.instructor, entry.assistant>>[c + 1]

TableBuilt ==
    pc \in {"table_added", "header_filled", "content_filled", "formatted",
            "outlined", "saved"}

\* C8: the table has 1 header row plus 4 content rows per included day.  The
\* full view includes all 5 days (21 rows), occupied or not; the staff view
\* includes exactly the occupied days in week order, each with its 4 rows
\* (day label and the 4 categories), and builds no table when no day is
\* occupied.
C8_RowStructure ==
    /\ TableBuilt => table.nrows = 1 + 4 * Len(IncludedDays)
    /\ (TableBuilt /\ view = "full") => table.nrows = 21
    /\ (TableBuilt /\ view = "staff") => Len(IncludedDays) > 0
    /\ pc = "no_table" =>
          /\ view = "staff" /\ table = NoTable
          /\ \A d \in WeekKeySet : ~Occupied(d)
    /\ pc = "content_filled" =>
          \A k \in 1..Len(IncludedDays) :
              /\ TextAt(BlockRow(k, 0), ColumnType.DAYS) = DayLabel(IncludedDays[k])
              /\ \A c \in 0..3 :
                     TextAt(BlockRow(k, c), ColumnType.CATEGORIES)
                         = detail_categories[c + 1]

\* Scenario D: a staff table with Sunday and Wednesday occupied, Tuesday not.
C8_Witness ==
    /\ pc = "content_filled"
    /\ view = "staff"
    /\ Occupied("sunday") /\ ~Occupied("tuesday") /\ Occupied("wednesday")
    /\ table.nrows = 9
    /\ TextAt(1, ColumnType.DAYS) = DayOfWeek.SUNDAY
    /\ TextAt(5, ColumnType.DAYS) = DayOfWeek.WEDNESDAY

\* C9: half-slot placement.  For an occupied (day, slot) whose entry has
\* is_half_slot = TRUE, in each of the day's 4 rows the field of the row's
\* category is in the main sub-column, and the half sub-column is a cell of
\* its own: present, empty, and in no merge region.
C9_HalfSlotPlacement ==
    pc = "content_filled" =>
        \A k \in 1..Len(IncludedDays), i \in 1..4, c \in 0..3 :
            LET entry == weekly_schedule[IncludedDays[k]][slot_keys[i]]
                r == BlockRow(k, c)
                main == time_slot_positions[i]
                half == time_slot_half_positions[i]
            IN  (entry # NoEntry /\ entry.is_half_slot) =>
                    /\ CellAt(table, r, main) = <<r, main>>
                    /\ TextAt(r, main) = FieldOf(entry, c)
                    /\ CellAt(table, r, half) = <<r, half>>
                    /\ table.paras[r][half] # <<>>
                    /\ TextAt(r, half) = EmptyStr
                    /\ \A reg \in table.regions :
                           ~(r \in reg.top..reg.bottom /\ reg.left <= half
                                 /\ main <= reg.right)

\* Scenario B: a half-slot entry on Monday, second slot, in a full table.
C9_Witness ==
    /\ pc = "content_filled"
    /\ view = "full"
    /\ weekly_schedule["monday"]["second"] # NoEntry
    /\ weekly_schedule["monday"]["second"].is_half_slot
    /\ CellAt(table, 5, ColumnType.TIME_SLOT_2_HALF) = <<5, ColumnType.TIME_SLOT_2_HALF>>
    /\ TextAt(6, ColumnType.TIME_SLOT_2) = Txt_L1

\* C10: full-slot placement.  For an occupied (day, slot) whose entry has
\* is_half_slot = FALSE, in each of the day's 4 rows the main and half
\* sub-columns are one merged cell, which shows the field of the row's
\* category: course title, location, instructor, assistant.
C10_FullSlotPlacement ==
    pc = "content_filled" =>
        \A k \in 1..Len(IncludedDays), i \in 1..4, c \in 0..3 :
            LET entry == weekly_schedule[IncludedDays[k]][slot_keys[i]]
                r == BlockRow(k, c)
                main == time_slot_positions[i]
                half == time_slot_half_positions[i]
            IN  (entry # NoEntry /\ ~entry.is_half_slot) =>
                    /\ CellAt(table, r, main) = <<r, main>>
                    /\ CellAt(table, r, half) = <<r, main>>
                    /\ [top |-> r, left |-> main, bottom |-> r, right |-> half]
                           \in table.regions
                    /\ TextAt(r, main) = FieldOf(entry, c)
                    /\ TextAt(r, half) = FieldOf(entry, c)

C10_Witness ==
    /\ pc = "content_filled"
    /\ view = "staff"
    /\ weekly_schedule["thursday"]["fourth"] # NoEntry
    /\ ~weekly_schedule["thursday"]["fourth"].is_half_slot
    /\ table.nrows = 5
    /\ CellAt(table, 3, ColumnType.TIME_SLOT_4_HALF) = <<3, ColumnType.TIME_SLOT_4>>
    /\ TextAt(3, ColumnType.TIME_SLOT_4) = Txt_T
    /\ TextAt(4, ColumnType.TIME_SLOT_4) = Txt_H

ContentFilled == pc \in {"content_filled", "formatted", "outlined", "saved"}

HeaderFilled == pc = "header_filled" \/ ContentFilled

\* The merge region with corners (top, left) and (bottom, right).
Region(top, left, bottom, right) ==
    [top |-> top, left |-> left, bottom |-> bottom, right |-> right]

\* C11: empty-slot placement.  For every (day, slot) of an included day that
\* has no entry, in each of the day's 4 category rows the main and the half
\* sub-column of the slot are one merged cell, and its text is empty.
C11_EmptySlotPlacement ==
    ContentFilled =>
        \A k \in 1..Len(IncludedDays), i \in 1..4, c \in 0..3 :
            LET r == BlockRow(k, c)
                main == time_slot_positions[i]
                half == time_slot_half_positions[i]
            IN  weekly_schedule[IncludedDays[k]][slot_keys[i]] = NoEntry =>
                    /\ CellAt(table, r, main) = <<r, main>>
                    /\ CellAt(table, r, half) = <<r, main>>
                    /\ Region(r, main, r, half) \in table.regions
                    /\ TextAt(r, main) = EmptyStr
                    /\ TextAt(r, half) = EmptyStr

\* A staff table of Monday only, whose third slot is empty.
C11_Witness ==
    /\ pc = "content_filled"
    /\ view = "staff"
    /\ IncludedDays = <<"monday">>
    /\ weekly_schedule["monday"]["third"] = NoEntry
    /\ weekly_schedule["monday"]["first"] # NoEntry
    /\ CellAt(table, 2, ColumnType.TIME_SLOT_3_HALF) = <<2, ColumnType.TIME_SLOT_3>>
    /\ TextAt(2, ColumnType.TIME_SLOT_3) = EmptyStr

\* C12: day-label merge.  In the full and in the staff view, for every
\* included day the day-label cell of the day's first content row is merged
\* vertically across exactly the day's 4 rows (one region of 4 rows and 1
\* column; the 4 positions answer as the first row's cell, no position outside
\* the block does), the last day included; the bound check raises nothing.
C12_DayLabelMerge ==
    /\ raised = "none"
    /\ ContentFilled =>
        \A k \in 1..Len(IncludedDays) :
            LET top == BlockRow(k, 0)
            IN  /\ top + 3 < table.nrows
                /\ Region(top, ColumnType.DAYS, top + 3, ColumnType.DAYS)
                       \in table.regions
                /\ \A r \in 0..(table.nrows - 1) :
                       (CellAt(table, r, ColumnType.DAYS) = <<top, ColumnType.DAYS>>)
                           <=> (r \in top..(top + 3))
                /\ \A reg \in table.regions :
                       (reg.left = ColumnType.DAYS /\ reg.top = top)
                           => reg = Region(top, ColumnType.DAYS, top + 3,
                                           ColumnType.DAYS)

\* The last day of a staff table with two days is merged down to the last row.
C12_Witness ==
    /\ pc = "content_filled"
    /\ view = "staff"
    /\ table.nrows = 9
    /\ Region(5, ColumnType.DAYS, 8, ColumnType.DAYS) \in table.regions
    /\ CellAt(table, 8, ColumnType.DAYS) = <<5, ColumnType.DAYS>>

\* C13: header row.  In row 0 the day-label and the category-label cell are
\* empty; for each of the 4 slot groups the main and half sub-columns are one
\* merged cell that shows the slot's time-range label (slot i the i-th
\* label); the 3 separator cells are empty.
C13_HeaderRow ==
    HeaderFilled =>
        /\ TextAt(HEADER_ROW_INDEX, ColumnType.DAYS) = EmptyStr
        /\ TextAt(HEADER_ROW_INDEX, ColumnType.CATEGORIES) = EmptyStr
        /\ \A i \in 1..4 :
              LET main == time_slot_positions[i]
                  half == time_slot_half_positions[i]
              IN  /\ CellAt(table, HEADER_ROW_INDEX, main) = <<HEADER_ROW_INDEX, main>>
                  /\ CellAt(table, HEADER_ROW_INDEX, half) = <<HEADER_ROW_INDEX, main>>
                  /\ Region(HEADER_ROW_INDEX, main, HEADER_ROW_INDEX, half)
                         \in table.regions
                  /\ TextAt(HEADER_ROW_INDEX, main) = time_slots[i]
                  /\ TextAt(HEADER_ROW_INDEX, half) = time_slots[i]
        /\ \A k \in 1..3 :
              /\ CellAt(table, HEADER_ROW_INDEX, separator_positions[k])
                     = <<HEADER_ROW_INDEX, separator_positions[k]>>
              /\ TextAt(HEADER_ROW_INDEX, separator_positions[k]) = EmptyStr

C13_Witness ==
    /\ pc = "header_filled"
    /\ row_index = CONTENT_START_ROW_INDEX
    /\ day_index = 0 /\ category_index = 0
    /\ TextAt(0, ColumnType.TIME_SLOT_3_HALF) = time_slots[3]
    /\ Cardinality(table.regions) = 4

\* The grid positions of a region.
CellsOf(reg) == (reg.top..reg.bottom) \X (reg.left..reg.right)

\* C14: merge soundness.  In every table under construction or built, in
\* either view: each merge region is a header main+half pair, a content
\* main+half pair or a day-label span of 4 rows, and lies inside the table;
\* no two regions have the same anchor (top-left) cell, and every position of
\* a region answers as the anchor of that region, so no two regions share a
\* position; a position absorbed into another cell lies in a region of that
\* cell; separator and category-label columns are in no region.
C14_MergeSoundness ==
    TableBuilt =>
        /\ \A reg \in table.regions :
              /\ 0 <= reg.top /\ reg.top <= reg.bottom /\ reg.bottom < table.nrows
              /\ 0 <= reg.left /\ reg.left <= reg.right /\ reg.right < TOTAL_COLUMNS
              /\ \/ /\ reg.top = reg.bottom
                    /\ \E i \in 1..4 : /\ reg.left = time_slot_positions[i]
                                       /\ reg.right = time_slot_half_positions[i]
                 \/ /\ reg.left = ColumnType.DAYS /\ reg.right = ColumnType.DAYS
                    /\ reg.bottom = reg.top + 3
                    /\ reg.top >= CONTENT_START_ROW_INDEX
                    /\ (reg.top - CONTENT_START_ROW_INDEX) % ROWS_PER_DAY = 0
              /\ \A p \in CellsOf(reg) : CellAt(table, p[1], p[2]) = <<reg.top, reg.left>>
              /\ ColumnType.CATEGORIES \notin reg.left..reg.right
              /\ \A k \in 1..3 : separator_positions[k] \notin reg.left..reg.right
        /\ Cardinality({<<reg.top, reg.left>> : reg \in table.regions})
               = Cardinality(table.regions)
        /\ \A r \in 0..(table.nrows - 1), c \in Cols :
              LET a == CellAt(table, r, c)
              IN  a # <<r, c>> =>
                      \/ /\ Region(a[1], a[2], a[1], a[2] + 1) \in table.regions
                         /\ <<r, c>> = <<a[1], a[2] + 1>>
                      \/ /\ Region(a[1], a[2], a[1] + 3, a[2]) \in table.regions
                         /\ c = a[2] /\ r \in a[1]..(a[1] + 3)

\* A full table with all three kinds of region and one half-slot pair that
\* is not merged: 4 header pairs, 5 day spans, 80 - 4 content pairs.
C14_Witness ==
    /\ pc = "content_filled"
    /\ view = "full"
    /\ Cardinality(table.regions) = 4 + 5 + 76
    /\ Region(0, ColumnType.TIME_SLOT_1, 0, ColumnType.TIME_SLOT_1_HALF) \in table.regions
    /\ Region(17, ColumnType.DAYS, 20, ColumnType.DAYS) \in table.regions
    /\ Region(20, ColumnType.TIME_SLOT_4, 20, ColumnType.TIME_SLOT_4_HALF) \in table.regions

-----------------------------------------------------------------------------
(* Properties of borders and background (specification SpecTable), on the  *)
(* saved document.                                                         *)

\* The w:tcBorders the reader applies to the cell that answers at (r, c).
BordersAt(r, c) ==
    LET cell == CellAt(table, r, c)
        tcBorders == table.borders[cell[1]][cell[2]]
    IN  IF reading = "first" THEN tcBorders[1] ELSE tcBorders[Len(tcBorders)]

\* The fill of the cell that answers at (r, c), NoShd when it has none.
ShdAt(r, c) ==
    LET cell == CellAt(table, r, c) IN table.shd[cell[1]][cell[2]]

LastRow == table.nrows - 1

ContentRows == CONTENT_START_ROW_INDEX..LastRow

\* C15: border perimeter.  After _apply_formatting and
\* _apply_table_outline_borders, in either view and for every pattern of
\* merges, every cell of the first row has a thick top edge, every cell of
\* the last row a thick bottom edge, every cell of the first column a thick
\* left edge and every cell of the last column a thick right edge.
C15_BorderPerimeter ==
    pc = "saved" =>
        /\ \A c \in Cols :
              /\ BordersAt(0, c).top = BorderWidth.THICK
              /\ BordersAt(LastRow, c).bottom = BorderWidth.THICK
        /\ \A r \in 0..LastRow :
              /\ BordersAt(r, 0).left = BorderWidth.THICK
              /\ BordersAt(r, TOTAL_COLUMNS - 1).right = BorderWidth.THICK

\* A staff table of one day with a half-slot entry in the fourth slot: the
\* last column is a cell of its own in the content rows and part of a merged
\* cell in the header; the reader takes the last w:tcBorders.
C15_Witness ==
    /\ pc = "saved"
    /\ reading = "last"
    /\ view = "staff"
    /\ table.nrows = 5
    /\ CellAt(table, 4, TOTAL_COLUMNS - 1) = <<4, TOTAL_COLUMNS - 1>>
    /\ CellAt(table, 0, TOTAL_COLUMNS - 1) = <<0, ColumnType.TIME_SLOT_4>>
    /\ Len(table.borders[0][ColumnType.TIME_SLOT_4]) = 2
    /\ BordersAt(4, TOTAL_COLUMNS - 1).bottom = BorderWidth.THICK

AllThick(b) ==
    /\ b.top = BorderWidth.THICK /\ b.bottom = BorderWidth.THICK
    /\ b.left = BorderWidth.THICK /\ b.right = BorderWidth.THICK

\* C16: merged day-label cells keep their thick perimeter.  Once the table is
\* built and saved, the merged day-label cell of every included day has all
\* four edges thick and the day-column background.
C16_MergedDayCellThick ==
    pc = "saved" =>
        \A k \in 1..Len(IncludedDays) :
            /\ AllThick(BordersAt(BlockRow(k, 0), ColumnType.DAYS))
            /\ ShdAt(BlockRow(k, 0), ColumnType.DAYS) = ColorScheme.DAYS_COLUMN

\* Position of content row r within its day, 0..3.
DayRowIndex(r) == (r - 1) % 4

\* The rule of C17 at position (r, c).
DayBlockRuleAt(r, c) ==
    LET b == BordersAt(r, c)
    IN  /\ DayRowIndex(r) = 0 => b.top = BorderWidth.THICK
        /\ DayRowIndex(r) = 3 => b.bottom = BorderWidth.THICK
        /\ DayRowIndex(r) # 3 => b.bottom = BorderWidth.THIN
        /\ DayRowIndex(r) # 0 => b.top = BorderWidth.THIN

\* C17 as stated: day-block border rule for every content row and EVERY
\* column: the first row of a day has a thick top edge, the last row of a day
\* a thick bottom edge, and the bottom of rows 1 to 3 and the top of rows 2 to
\* 4 of the day are thin.
C17_DayBlockBorders_AllColumns ==
    pc = "saved" =>
        \A r \in ContentRows, c \in Cols : DayBlockRuleAt(r, c)

\* C17 as amended: the day-block border rule for every content row and every
\* column except the day-label column (whose 4 rows are one merged cell), in
\* the full view and in the staff view.
C17_DayBlockBorders ==
    pc = "saved" =>
        \A r \in ContentRows, c \in Cols \ {ColumnType.DAYS} : DayBlockRuleAt(r, c)

\* A staff table of two days: the edge between the days is thick on both
\* sides, the edges inside the second day are thin.
C17_Witness ==
    /\ pc = "saved"
    /\ view = "staff"
    /\ table.nrows = 9
    /\ BordersAt(4, ColumnType.TIME_SLOT_2).bottom = BorderWidth.THICK
    /\ BordersAt(5, ColumnType.TIME_SLOT_2).top = BorderWidth.THICK
    /\ BordersAt(6, ColumnType.SEPARATOR_1).top = BorderWidth.THIN
    /\ BordersAt(6, ColumnType.CATEGORIES).bottom = BorderWidth.THIN

SlotColumns ==
    {time_slot_positions[i] : i \in 1..4} \cup {time_slot_half_positions[i] : i \in 1..4}

SeparatorColumns == {separator_positions[k] : k \in 1..3}

\* C18 as stated: there are two different tints; the separator sub-columns
\* (all rows) and the header row's slot cells have the first, the day-label
\* and category-label columns (content rows) the second, and the main and
\* half sub-columns of content rows have none.
C18_Background_TwoGroups ==
    pc = "saved" =>
        \E tint1, tint2 \in {ColorScheme[n] : n \in DOMAIN ColorScheme} :
            /\ tint1 # tint2
            /\ \A r \in 0..LastRow, c \in SeparatorColumns : ShdAt(r, c) = tint1
            /\ \A c \in SlotColumns : ShdAt(HEADER_ROW_INDEX, c) = tint1
            /\ \A r \in ContentRows :
                  /\ ShdAt(r, ColumnType.DAYS) = tint2
                  /\ ShdAt(r, ColumnType.CATEGORIES) = tint2
            /\ \A r \in ContentRows, c \in SlotColumns : ShdAt(r, c) = NoShd

\* C18 as amended: the header row's slot and separator cells and the
\* day-label column have one tint (8DB3E2); the category-label column and the
\* separator sub-columns of content rows have a second, different tint
\* (B7DDE8); the main and half sub-columns of content rows, and the two label
\* cells of the header row, have none.
C18_Background ==
    pc = "saved" =>
        /\ ColorScheme.HEADER_BACKGROUND # ColorScheme.SEPARATOR_BACKGROUND
        /\ \A c \in SlotColumns \cup SeparatorColumns :
              ShdAt(HEADER_ROW_INDEX, c) = "8DB3E2"
        /\ \A r \in ContentRows :
              /\ ShdAt(r, ColumnType.DAYS) = "8DB3E2"
              /\ ShdAt(r, ColumnType.CATEGORIES) = "B7DDE8"
              /\ \A c \in SeparatorColumns : ShdAt(r, c) = "B7DDE8"
              /\ \A c \in SlotColumns : ShdAt(r, c) = NoShd
        /\ ShdAt(HEADER_ROW_INDEX, ColumnType.DAYS) = NoShd
        /\ ShdAt(HEADER_ROW_INDEX, ColumnType.CATEGORIES) = NoShd

\* A full table with a merged (full-slot) and an unmerged (half-slot) pair.
C18_Witness ==
    /\ pc = "saved"
    /\ view = "full"
    /\ \E r \in ContentRows :
          /\ CellAt(table, r, ColumnType.TIME_SLOT_1_HALF)
                 = <<r, ColumnType.TIME_SLOT_1_HALF>>
          /\ TextAt(r, ColumnType.TIME_SLOT_1) # EmptyStr
    /\ \E r \in ContentRows : TextAt(r, ColumnType.TIME_SLOT_2_HALF) # EmptyStr
    /\ ShdAt(20, ColumnType.SEPARATOR_3) = "B7DDE8"
    /\ ShdAt(0, ColumnType.SEPARATOR_3) = "8DB3E2"

-----------------------------------------------------------------------------
(* Properties of the config resolver (specification SpecConfig).           *)

Sections == {"header", "footer"}

\* The section sec of the layer a table holds for a code: its fields, or no
\* field when the table has no layer for the code or the layer no such
\* section.
LayerOf(overrides, code, sec) ==
    IF code \in DOMAIN overrides /\ sec \in DOMAIN overrides[code]
    THEN overrides[code][sec]
    ELSE <<>>

LevelLayer(sec) == LayerOf(level_overrides, cfg_level, sec)

SpecialtyLayer(sec) == LayerOf(specialty_overrides, cfg_specialty, sec)

\* C19: config layering.  For every level L and specialty S the resolved
\* metadata has, in the header and in the footer separately, exactly the
\* fields of the base, of L's layer and of S's layer, and each field has the
\* value of the specialty layer if that layer sets it, else of the level
\* layer if that sets it, else of the base.
C19_ConfigLayering ==
    pc = "config_returned" =>
        /\ DOMAIN config = Sections
        /\ \A sec \in Sections :
              /\ DOMAIN config[sec]
                     = (DOMAIN BASE_LEVEL_CONFIG[sec]) \cup (DOMAIN LevelLayer(sec))
                           \cup (DOMAIN SpecialtyLayer(sec))
              /\ \A f \in DOMAIN config[sec] :
                     config[sec][f] =
                        IF f \in DOMAIN SpecialtyLayer(sec) THEN SpecialtyLayer(sec)[f]
                        ELSE IF f \in DOMAIN LevelLayer(sec) THEN LevelLayer(sec)[f]
                        ELSE BASE_LEVEL_CONFIG[sec][f]

\* Level 100 and specialty comm under tables where both layers set
\* level_prefix and program_manager_title: the specialty's values are in the
\* result.
C19_Witness ==
    /\ pc = "config_returned"
    /\ cfg_level = Txt_100
    /\ cfg_specialty = Txt_comm
    /\ "level_prefix" \in DOMAIN LevelLayer("header")
    /\ "level_prefix" \in DOMAIN SpecialtyLayer("header")
    /\ LevelLayer("header").level_prefix # SpecialtyLayer("header").level_prefix
    /\ config.header.level_prefix = Txt_X
    /\ config.footer.program_manager_title = Txt_Y

\* C20: overlay layers never delete.  At every step of the resolution each
\* field of the base is present in its section; every field the level layer
\* added is present in the result; and the step of a layer leaves every field
\* the layer does not name as it was (present, with its value).
C20_LayersNeverDelete ==
    /\ [](pc \in {"base_copied", "level_applied", "config_returned"} =>
            \A sec \in Sections :
                (DOMAIN BASE_LEVEL_CONFIG[sec]) \subseteq (DOMAIN config[sec]))
    /\ [](pc = "config_returned" =>
            \A sec \in Sections : (DOMAIN LevelLayer(sec)) \subseteq (DOMAIN config[sec]))
    /\ [][pc = "base_copied" =>
            \A sec \in Sections : \A f \in (DOMAIN config[sec]) \ (DOMAIN LevelLayer(sec)) :
                f \in DOMAIN config'[sec] /\ config'[sec][f] = config[sec][f]]_vars
    /\ [][pc = "level_applied" =>
            \A sec \in Sections : \A f \in (DOMAIN config[sec]) \ (DOMAIN SpecialtyLayer(sec)) :
                f \in DOMAIN config'[sec] /\ config'[sec][f] = config[sec][f]]_vars

\* Level 200 with specialty pow under the tables of the source: the footer
\* has the 6 fields of the base, the level's program_manager_title and the
\* specialty's program_manager_name.
C20_Witness ==
    /\ pc = "config_returned"
    /\ cfg_level = Txt_200
    /\ cfg_specialty = Txt_pow
    /\ level_overrides = LEVEL_OVERRIDES
    /\ specialty_overrides = SPECIALTY_OVERRIDES
    /\ Cardinality(DOMAIN config.footer) = 8
    /\ config.footer.program_manager_title
           = LEVEL_OVERRIDES[Txt_200].footer.program_manager_title
    /\ config.footer.dean_name = BASE_LEVEL_CONFIG.footer.dean_name

\* The enumerated level codes.
EnumeratedLevels == {Txt_100, Txt_200, Txt_300, Txt_400}

\* The call in progress was made through WordGenerator._get_level_config and
\* its validation step is over.
MethodCallChecked == cfg_via = "method" /\ pc # "method_start"

UnknownSpecialty(sp) ==
    /\ sp # None
    /\ sp \notin DOMAIN SPECIALITY_MAPPING
    /\ sp \notin DOMAIN LEVEL_SPECIALITY_MAPPING
    /\ sp \notin DOMAIN specialty_overrides

\* s ends with the text t.
EndsWith(s, t) ==
    /\ Len(s) >= Len(t)
    /\ SubSeq(s, Len(s) - Len(t) + 1, Len(s)) = t

\* C22: unknown specialty.  Resolution for a level of the set and a specialty
\* code that is in no mapping and has no override layer never raises, the
\* result is the base overwritten by the level layer alone, and the header's
\* level line shows the code itself as the specialty.
C22_UnknownSpecialtyFallsBack ==
    (MethodCallChecked /\ cfg_level \in EnumeratedLevels
        /\ UnknownSpecialty(cfg_specialty)) =>
        /\ raised = "none"
        /\ pc # "config_raised"
        /\ pc \in {"config_returned", "header_filled"} =>
              \A sec \in {"header", "footer"} :
                 /\ DOMAIN config[sec] =
                       (DOMAIN BASE_LEVEL_CONFIG[sec])
                           \cup (DOMAIN LayerOf(level_overrides, cfg_level, sec))
                 /\ \A f \in DOMAIN config[sec] :
                       config[sec][f] =
                          IF f \in DOMAIN LayerOf(level_overrides, cfg_level, sec)
                          THEN LayerOf(level_overrides, cfg_level, sec)[f]
                          ELSE BASE_LEVEL_CONFIG[sec][f]
        /\ pc = "header_filled" =>
              EndsWith(header_text,
                       config.header.division_prefix \o <<32>> \o cfg_specialty)

\* The header of level 300 and the unknown code "X" was filled.
C22_Witness ==
    /\ pc = "header_filled"
    /\ cfg_level = Txt_300
    /\ cfg_specialty = Txt_X
    /\ UnknownSpecialty(Txt_X)
    /\ EndsWith(header_text, <<32>> \o Txt_X)

\* C23: the shared configuration is never mutated.  Through any sequence of
\* resolutions the base map keeps its value and the override maps are left
\* as they are, and the result of a resolution is the function of its
\* arguments and the maps alone, whatever was resolved before.
C23_SharedConfigNeverMutated ==
    /\ [](base_config = BASE_LEVEL_CONFIG)
    /\ [][/\ level_overrides' = level_overrides
          /\ specialty_overrides' = specialty_overrides]_vars
    /\ [](pc = "config_returned" =>
            config = _get_level_config(cfg_level, cfg_specialty,
                                       level_overrides, specialty_overrides))

\* (300, comp) resolved right after (100, comm): no program-manager field.
C23_Witness ==
    /\ pc = "config_returned"
    /\ cfg_prev.via = "function"
    /\ cfg_prev.level = Txt_100
    /\ cfg_prev.specialty = Txt_comm
    /\ cfg_level = Txt_300
    /\ cfg_specialty = Txt_comp
    /\ "program_manager_title" \notin DOMAIN config.footer
    /\ "program_manager_name" \notin DOMAIN config.footer
    /\ base_config = BASE_LEVEL_CONFIG

-----------------------------------------------------------------------------
(* Properties of create_schedule_entry (specification SpecEntry).          *)

\* The record's field, with None read as the empty string.
FieldOrEmpty(x) == IF x = None THEN EmptyStr ELSE x

\* C27: create_schedule_entry maps field by field.  The entry's course_name
\* is the record's course_name, its location the record's location, its
\* instructor the record's main_tutor and its assistant the record's
\* helping_stuff, a None of the record becoming the empty string.
C27_EntryFieldByField ==
    pc = "entry_created" =>
        /\ created_entry.course_name = FieldOrEmpty(csv_rows[1].course_name)
        /\ created_entry.location = csv_rows[1].location
        /\ created_entry.instructor = FieldOrEmpty(csv_rows[1].main_tutor)
        /\ created_entry.assistant = FieldOrEmpty(csv_rows[1].helping_stuff)

-----------------------------------------------------------------------------
(* Properties of the multi-schedule documents (specification SpecDoc).     *)

\* The generation has ended: the document was saved or an exception left
\* generate_multi_*_word_document.
DocEnded == pc \in {"doc_saved", "doc_raised"}

\* Schedules whose loop body ran to its end.
Completed == IF pc = "doc_raised" THEN part_index - 1 ELSE part_index

IsTable(e) == e.kind = "table"

IsPageBreak(e) == e.kind = "page_break"

IsSectionBreak(e) == e.kind = "section_break"

\* The schedule numbers of the tables of the body, in body order.
TableParts ==
    LET ts == SelectSeq(doc.body, IsTable)
    IN  [k \in 1..Len(ts) |-> ts[k].part]

\* The section that holds the body element at position p.
SectionAt(p) == 1 + Len(SelectSeq(SubSeq(doc.body, 1, p - 1), IsSectionBreak))

\* C24: an invalid level is fatal to its own section only.  When
\* generate_multi_level_word_document ends (leaving aside a run ended by the
\* KeyError of the footer), the document is saved and holds the tables of
\* exactly the schedules with an enumerated level, in the order of the list.
C24_InvalidLevelSkipsOnlyItsSection ==
    (generator = "level" /\ DocEnded /\ raised # "KeyError") =>
        /\ doc.saved
        /\ raised = "none"
        /\ LET valid == {i \in 1..Len(schedules) :
                            schedules[i].level \in EnumeratedLevels}
           IN  /\ Len(TableParts) = Cardinality(valid)
               /\ {TableParts[k] : k \in 1..Len(TableParts)} = valid
               /\ \A k, l \in 1..Len(TableParts) :
                      k < l => TableParts[k] < TableParts[l]

\* C28: footer composition succeeds for every enumerated level and every
\* specialty.  In the multi-level document the section of a schedule with an
\* enumerated level gets its footer, with a name under every title, and no
\* exception ends the generation at that schedule.
C28_FooterComposes ==
    (generator = "level" /\ part_index >= 1
        /\ schedules[part_index].level \in EnumeratedLevels) =>
        /\ raised = "none"
        /\ LET f == doc.sections[part_index].footer
           IN  /\ f.info
               /\ Len(f.cells) \in {3, 4}
               /\ \A c \in 1..Len(f.cells) : Len(f.cells[c]) = 2

\* The header and footer cells that schedule number i of the list is to get.
ExpectedHeader(i) ==
    IF generator = "location"
    THEN HeaderCells(BASE_LEVEL_CONFIG.header, Txt_occupancy \o schedules[i].location)
    ELSE LET h == _get_level_config(schedules[i].level, schedules[i].speciality,
                                    LEVEL_OVERRIDES, SPECIALTY_OVERRIDES).header
         IN  HeaderCells(h, LevelLine(h, schedules[i].speciality, schedules[i].level))

ExpectedFooterConfig(i) ==
    IF generator = "location"
    THEN _get_level_config(Txt_100, Txt_comm, LEVEL_OVERRIDES, SPECIALTY_OVERRIDES).footer
    ELSE _get_level_config(schedules[i].level, schedules[i].speciality,
                           LEVEL_OVERRIDES, SPECIALTY_OVERRIDES).footer

\* C25: sections do not inherit.  In the multi-level and multi-location
\* documents the section of every schedule handled so far has a header and a
\* footer definition of its own (not linked to the previous section), every
\* section after the first starts on a new page, behind a page break, and the
\* header and footer of every finished section are the ones resolved for its
\* own schedule.
C25_SectionsDoNotInherit ==
    (generator \in {"level", "location"} /\ pc \in {"doc_loop", "doc_saved", "doc_raised"}) =>
        /\ \A k \in 1..part_index :
              /\ k <= Len(doc.sections)
              /\ ~doc.sections[k].header.linked
              /\ ~doc.sections[k].footer.linked
              /\ DefinitionOf(doc.sections, k, "header") = k
              /\ DefinitionOf(doc.sections, k, "footer") = k
              /\ k > 1 =>
                    /\ doc.sections[k].start = "new_page"
                    /\ \E p \in 2..Len(doc.body) :
                          /\ IsSectionBreak(doc.body[p])
                          /\ IsPageBreak(doc.body[p - 1])
                          /\ SectionAt(p) = k - 1
        /\ \A k \in 1..Completed :
              /\ doc.sections[k].header.cells = ExpectedHeader(k)
              /\ doc.sections[k].footer.cells
                     = _fill_footer_content(ExpectedFooterConfig(k)).cells
              /\ doc.sections[k].footer.info

\* A saved multi-level document of three sections whose level lines differ.
C25_Witness ==
    /\ generator = "level"
    /\ pc = "doc_saved"
    /\ Len(doc.sections) = 3
    /\ \A k \in 1..3 : ~doc.sections[k].header.linked
    /\ doc.sections[1].header.cells.left[3] # doc.sections[2].header.cells.left[3]
    /\ doc.sections[2].header.cells.left[3] # doc.sections[3].header.cells.left[3]
    /\ Len(doc.sections[1].footer.cells) # Len(doc.sections[3].footer.cells)

\* s is a prefix of t.
IsPrefix(s, t) == Len(s) <= Len(t) /\ SubSeq(t, 1, Len(s)) = s

\* C26: sections in partition order.  The body and the section list only
\* grow at their end and a finished section is not changed again; the tables
\* of the body are those of schedules 1, 2, ... of the sorted list in this
\* order, the i-th table in the i-th section, whose header is that of the
\* i-th schedule; the saved document has one section and one table per
\* schedule.
C26_SectionsInPartitionOrder ==
    /\ [][(generator \in {"level", "location"}) =>
            (/\ IsPrefix(doc.body, doc'.body)
             /\ Len(doc.sections) <= Len(doc'.sections)
             /\ \A k \in 1..Completed : doc'.sections[k] = doc.sections[k])]_vars
    /\ []((generator \in {"level", "location"}
             /\ pc \in {"doc_loop", "doc_saved", "doc_raised"}) =>
            /\ Len(TableParts) = Completed
            /\ \A i \in 1..Len(TableParts) : TableParts[i] = i
            /\ \A p \in 1..Len(doc.body) :
                  IsTable(doc.body[p]) => SectionAt(p) = doc.body[p].part
            /\ Len(doc.sections) = IF part_index = 0 THEN 1 ELSE part_index
            /\ \A i \in 1..Completed :
                  doc.sections[i].header.cells.left[3] = ExpectedHeader(i).left[3]
            /\ pc = "doc_saved" => Completed = Len(schedules))

\* A saved multi-location document of three sections, made from records
\* that were not in the order of their locations.
C26_Witness ==
    /\ generator = "location"
    /\ pc = "doc_saved"
    /\ Len(schedules) = 3
    /\ Len(doc.sections) = 3
    /\ TableParts = <<1, 2, 3>>
    /\ csv_rows[1].location # schedules[1].location

\* The staff schedules among the first n that have an active day.
ActiveStaff(n) == {i \in 1..n : ActiveDays(schedules[i].weekly_schedule) # <<>>}

\* The elements of the body made for schedule number i, by kind.
KindsOf(i) ==
    LET es == SelectSeq(doc.body, LAMBDA e : e.part = i)
    IN  [k \in 1..Len(es) |-> es[k].kind]

\* The tables behind the last page break of the body.
TablesOnLastPage ==
    LET breaks == {p \in 1..Len(doc.body) : IsPageBreak(doc.body[p])}
        from == IF breaks = {} THEN 0 ELSE CHOOSE p \in breaks : \A q \in breaks : q <= p
    IN  Cardinality({p \in (from + 1)..Len(doc.body) : IsTable(doc.body[p])})

\* C29: staff view pagination.  A staff schedule without active day adds
\* nothing to the body and leaves the counter; a schedule with an active day
\* adds its title and its table, behind a page break exactly when it is the
\* 3rd, 5th, 7th, ... emitted one; tables_on_page stays in 0..2 and is the
\* number of tables on the last page, so no page has more than 2 tables.
C29_StaffPagination ==
    (generator = "staff" /\ pc \in {"doc_loop", "doc_saved"}) =>
        /\ tables_on_page \in 0..2
        /\ tables_on_page = TablesOnLastPage
        /\ \A i \in 1..part_index :
              LET nth == Cardinality(ActiveStaff(i))
              IN  KindsOf(i) =
                     IF i \notin ActiveStaff(i) THEN <<>>
                     ELSE IF nth >= 3 /\ nth % 2 = 1
                          THEN <<"page_break", "title", "table">>
                          ELSE <<"title", "table">>
        /\ \A e \in {doc.body[p] : p \in 1..Len(doc.body)} : e.part \in 1..part_index

\* Five staff schedules, one of them without active day: four tables, one
\* page break, before the third table.
C29_Witness ==
    /\ generator = "staff"
    /\ pc = "doc_saved"
    /\ Len(schedules) = 5
    /\ Cardinality(ActiveStaff(5)) = 4
    /\ 2 \notin ActiveStaff(5)
    /\ Len(SelectSeq(doc.body, IsPageBreak)) = 1
    /\ KindsOf(4) = <<"page_break", "title", "table">>
    /\ tables_on_page = 2

-----------------------------------------------------------------------------
(* Day label against day content (specification SpecTable).                *)

\* The day blocks of the table.
DayBlocks == 1..((table.nrows - 1) \div 4)

\* The place of a day in the week.
WeekPlace(d) ==
    CASE d = "sunday" -> 1 [] d = "monday" -> 2 [] d = "tuesday" -> 3
      [] d = "wednesday" -> 4 [] d = "thursday" -> 5

\* The day a block is labelled with: the key of its label in the generator's
\* day_mapping.
LabelledDay(k) == generator_day_mapping[TextAt(BlockRow(k, 0), ColumnType.DAYS)]

\* C30: day label and day content agree.  In every filled table each 4-row
\* block carries the label of a day D of the week, and in each of its rows
\* every slot shows the row's field of the entry stored for (D, slot) in the
\* grid, or nothing if the grid has no entry there; blocks follow the week
\* order, the full view has the five days and the staff view exactly the
\* days with an entry.
C30_DayLabelMatchesContent ==
    ContentFilled =>
        /\ \A k \in DayBlocks :
              /\ TextAt(BlockRow(k, 0), ColumnType.DAYS) \in DOMAIN generator_day_mapping
              /\ \A i \in 1..4, c \in 0..3 :
                    LET stored == weekly_schedule[LabelledDay(k)][slot_keys[i]]
                    IN  TextAt(BlockRow(k, c), time_slot_positions[i]) =
                           IF stored = NoEntry THEN EmptyStr ELSE FieldOf(stored, c)
        /\ \A k, l \in DayBlocks :
              k < l => WeekPlace(LabelledDay(k)) < WeekPlace(LabelledDay(l))
        /\ {LabelledDay(k) : k \in DayBlocks} =
              IF view = "full" THEN WeekKeySet
              ELSE {d \in WeekKeySet : Occupied(d)}

\* A full table whose grid has entries on Monday only: the block labelled
\* Monday shows them, the block labelled Sunday is empty.
C30_Witness ==
    /\ pc = "saved"
    /\ view = "full"
    /\ Occupied("monday") /\ ~Occupied("sunday")
    /\ LabelledDay(2) = "monday"
    /\ \E i \in 1..4 : TextAt(BlockRow(2, 0), time_slot_positions[i]) # EmptyStr
    /\ \A i \in 1..4 : TextAt(BlockRow(1, 0), time_slot_positions[i]) = EmptyStr

====
